---- MODULE Spec2Model ----
(***************************************************************************)
(* Staffing-demand-to-schedule pipeline of hira_light_csv.                 *)
(*                                                                         *)
(*   census x rules --generate_staffing_plan--> plan                       *)
(*   plan x resources --compare_plan_vs_resources--> comparison            *)
(*   plan x shifts --assign_staff_to_shifts--> schedule                    *)
(*                                                                         *)
(* Tables (pandas DataFrames) are sequences of records.  A cell value is   *)
(* a record [kind, v]: a number, a float NaN, pandas' pd.NA or Python's    *)
(* None.  Real numbers are modelled as integers in a fixed unit; the       *)
(* quotient census / ratio is kept exact as the pair (census, ratio).      *)
(***************************************************************************)
EXTENDS Integers, Sequences, FiniteSets, TLC

VARIABLES
    pc,            \* position of the run
    fn_census,     \* argument of staff_needed / _ceil_div
    fn_ratio,      \* argument of staff_needed / _ceil_div
    fn_result,     \* results of staff_needed and _ceil_div
    census_df,     \* census table: rows [Date, Census, SeasonLabel]
    rules_df,      \* staffing rules: [cols, rows]
    resources_df,  \* resource table: rows [Department, Role, Shift, FTE]
    shifts_df,     \* explicit shift table: [given, rows]
    shifts_cfg,    \* configuration fallback: role -> list of shift blocks
    plan_df,       \* staffing plan (DemandRecords)
    pos_ctrl_df,   \* normalised resources: [exc, cols, rows]
    comp_df,       \* staffing vs resources (ComparisonRecords)
    gap_df,        \* staffing vs resources of pipeline/position_control.py
    schedule_df,   \* staffing schedule (ScheduleRecords)
    error,         \* exception raised by the last operation, "" when none
    season_rules,  \* ordered SeasonRules: [months, weekdays, season]
    labeled_df,    \* census with Month, Weekday, SeasonLabel, SeasonFactor
    season_arg,    \* the season argument of build_staffing_plan
    factor_run,    \* a plan of the census with other SeasonFactors
    run_date,      \* the day datetime.now() reads when the summary is built
    season_summary, \* schedule summed by (SeasonLabel, Role, Shift)
    summary_df,    \* the Summary sheet
    written,       \* the sheets of staffing_outputs.xlsx
    first_out,     \* the sheets an earlier run on the same inputs wrote
    span_start,    \* argument of _hours_in_span
    span_end,      \* argument of _hours_in_span
    span_hours,    \* result of _hours_in_span
    hourly_need,   \* hourly demand: rows [Date, Hour, Hourly_FTE_Needed]
    shift_blocks,  \* day type -> list of blocks [label, s, e]
    need_by_shift  \* hourly demand consolidated by shift block

vars == <<pc, fn_census, fn_ratio, fn_result, census_df, rules_df,
          resources_df, shifts_df, shifts_cfg, plan_df, pos_ctrl_df, comp_df,
          gap_df, schedule_df, error, season_rules, labeled_df, season_arg,
          factor_run, run_date, season_summary, summary_df, written, first_out,
          span_start, span_end, span_hours, hourly_need, shift_blocks,
          need_by_shift>>

season_vars == <<season_rules, labeled_df, season_arg, factor_run>>
out_vars == <<run_date, season_summary, summary_df, written, first_out>>
hira_vars == <<span_start, span_end, span_hours, hourly_need, shift_blocks,
               need_by_shift>>

-----------------------------------------------------------------------------
(* Bounds *)

MaxCensus == 12        \* largest census given to the ceiling functions
MaxNegCensus == 2      \* most negative census (the loaders accept any number)
MaxRatio == 5          \* largest ratio given to the ceiling functions
TableMaxCensus == 3    \* largest census in a census table
TableMaxRatio == 2     \* largest ratio in a rules table
MaxDate == 2           \* number of distinct dates
MaxCensusRows == 2     \* rows of a census table
MaxRules == 2          \* rows of a rules table
MaxPlanRows == 2       \* rows of a plan handed to the allocator / reconciler
MaxNeeded == 3         \* largest Staff_Needed of such a plan row
MaxShifts == 3         \* blocks of a shift table
MaxResources == 2      \* rows of a resource table
MaxFTE == 2            \* largest FTE of a resource row
MaxSeasonRules == 2    \* rules of a season configuration
MaxRunDay == 2         \* days on which a run may take place

-----------------------------------------------------------------------------
(* Cell values *)

Num(x) == [kind |-> "num", v |-> x]
NaN == [kind |-> "nan", v |-> 0]
NA == [kind |-> "NA", v |-> 0]
None == [kind |-> "None", v |-> 0]

\* pd.isna: true of NaN, pd.NA and None
isna(x) == x.kind # "num"

NoLabel == "<None>"
NoValue == "<none>"

-----------------------------------------------------------------------------
(* Pure helpers *)

\* a ceiling that adds a unit even when the division is exact
ceil_always_up(num, den) == (num \div den) + 1

\* math.ceil(num / den) for den > 0
ceil(num, den) ==
    IF num % den = 0 THEN num \div den ELSE (num \div den) + 1

staff_needed(census, ratio) ==
    IF isna(census) \/ isna(ratio) THEN 0
    ELSE IF ratio.v <= 0 THEN 0
    ELSE ceil(census.v, ratio.v)

_ceil_div(census, ratio) ==
    IF isna(census) \/ isna(ratio) THEN 0
    ELSE IF ratio.v <= 0 THEN 0
    ELSE ceil(census.v, ratio.v)

-----------------------------------------------------------------------------
(* The ceiling functions on their own *)

FnCensusVals == {Num(c) : c \in (0 - MaxNegCensus)..MaxCensus} \cup {NaN}
FnRatioVals == {Num(r) : r \in (0 - 1)..MaxRatio} \cup {NaN}

\* nothing labelled, summarised or written yet
\* no census planned with other factors yet
NoFactorRun == [census |-> <<>>, plan |-> <<>>, exc |-> ""]

SeasonIdle ==
    /\ season_rules = <<>>
    /\ labeled_df = <<>>
    /\ season_arg = "Medium"
    /\ factor_run = NoFactorRun

\* no workbook: staffing_outputs.xlsx does not exist
NoOutput ==
    [exists |-> FALSE, Summary |-> <<>>, StaffingPlan |-> <<>>,
     StaffingVsResources |-> <<>>, StaffingSchedule |-> <<>>,
     SummaryBySeason |-> <<>>]

OutIdle ==
    /\ run_date = 0
    /\ season_summary = <<>>
    /\ summary_df = <<>>
    /\ written = NoOutput
    /\ first_out = NoOutput

\* nothing consolidated by shift and no span computed yet
NoBlocks == [weekday |-> <<>>, weekend |-> <<>>]

HiraIdle ==
    /\ span_start = None
    /\ span_end = None
    /\ span_hours = <<>>
    /\ hourly_need = <<>>
    /\ shift_blocks = NoBlocks
    /\ need_by_shift = <<>>

Idle ==
    /\ SeasonIdle
    /\ OutIdle
    /\ HiraIdle
    /\ census_df = <<>>
    /\ rules_df = [cols |-> {}, rows |-> <<>>]
    /\ resources_df = [cols |-> {}, rows |-> <<>>]
    /\ pos_ctrl_df = [cols |-> {}, rows |-> <<>>]
    /\ gap_df = <<>>
    /\ shifts_df = [given |-> FALSE, cols |-> {}, rows |-> <<>>]
    /\ shifts_cfg = <<>>
    /\ plan_df = <<>>
    /\ comp_df = <<>>
    /\ schedule_df = <<>>
    /\ error = ""

InitFn ==
    /\ pc = "fn_call"
    /\ fn_census \in FnCensusVals
    /\ fn_ratio \in FnRatioVals
    /\ fn_result = [staff_needed |-> 0, ceil_div |-> 0]
    /\ Idle

StaffNeeded ==
    /\ pc = "fn_call"
    /\ fn_result' = [staff_needed |-> staff_needed(fn_census, fn_ratio),
                     ceil_div |-> _ceil_div(fn_census, fn_ratio)]
    /\ pc' = "fn_done"
    /\ UNCHANGED <<fn_census, fn_ratio, census_df, rules_df, resources_df,
                   shifts_df, shifts_cfg, plan_df, pos_ctrl_df, comp_df,
                   gap_df, schedule_df, error, season_vars, out_vars, hira_vars>>

NextFn == StaffNeeded

SpecFn == InitFn /\ [][NextFn]_vars

-----------------------------------------------------------------------------
(* Demand planner: generate_staffing_plan *)

SeasonCols == {"Low", "Medium", "High"}
RatioCols == SeasonCols \cup {"Ratio"}

\* r_row.get(col, pd.NA): the cell, or pd.NA when the table has no such column
row_get(rules, r_row, col) ==
    IF col \in rules.cols THEN r_row[col] ELSE NA

\* a detection that takes every rules table for a seasonal one
has_season_cols_always(rules) == TRUE

\* any(col in rules_df.columns for col in ["Low", "Medium", "High"])
has_season_cols(rules) == rules.cols \cap SeasonCols # {}

\* a selection that crosses the High and Low columns
ratio_col_crossed(rules, season) ==
    IF has_season_cols(rules) /\ season \in SeasonCols
    THEN (IF season = "High" THEN "Low"
          ELSE IF season = "Low" THEN "High" ELSE season)
    ELSE "Ratio"

\* the column the ratio of a census row is read from
ratio_col(rules, season) ==
    IF has_season_cols(rules) /\ season \in SeasonCols THEN season ELSE "Ratio"

select_ratio(rules, r_row, season) ==
    row_get(rules, r_row, ratio_col(rules, season))

\* float(x) if x is not None else 0.0; float(pd.NA) raises TypeError
float_raises(x) == x.kind = "NA"
float_or_zero(x) == IF x.kind = "None" THEN Num(0) ELSE x

\* the exception one (census row, rule row) iteration raises, "" when none
pair_exception(c_row, rules, r_row) ==
    IF "Role" \notin rules.cols THEN "KeyError"
    ELSE IF float_raises(c_row.Census) THEN "TypeError"
    ELSE IF float_raises(select_ratio(rules, r_row, c_row.SeasonLabel))
         THEN "TypeError"
    ELSE ""

\* a record whose demand is computed from the census scaled by SeasonFactor
plan_record_scaled(c_row, rules, r_row) ==
    LET season == c_row.SeasonLabel
        ratio == select_ratio(rules, r_row, season)
        census == float_or_zero(c_row.Census)
        scaled == IF census.kind = "num"
                  THEN Num(census.v * c_row.SeasonFactor) ELSE census
        tenfold == IF ratio.kind = "num"
                   THEN Num(ratio.v * 10) ELSE float_or_zero(ratio)
    IN [Date |-> c_row.Date,
        Department |-> NoValue,
        Role |-> r_row.Role,
        Shift |-> NoValue,
        SeasonLabel |-> IF season \in {NoLabel, ""} THEN "N/A" ELSE season,
        Census |-> c_row.Census,
        RatioUsed |-> ratio,
        Staff_Needed |-> staff_needed(scaled, tenfold)]

\* the record appended to plan_records by one iteration
plan_record(c_row, rules, r_row) ==
    LET season == c_row.SeasonLabel
        ratio == select_ratio(rules, r_row, season)
    IN [Date |-> c_row.Date,
        Department |-> NoValue,
        Role |-> r_row.Role,
        Shift |-> NoValue,
        SeasonLabel |-> IF season \in {NoLabel, ""} THEN "N/A" ELSE season,
        Census |-> c_row.Census,
        RatioUsed |-> ratio,
        Staff_Needed |-> staff_needed(float_or_zero(c_row.Census),
                                      float_or_zero(ratio))]

\* a planner that leaves out the pairs whose ratio is not a positive number
generate_staffing_plan_valid_only(census, rules) ==
    LET nc == Len(census)
        nr == Len(rules.rows)
        c_of(k) == census[((k - 1) \div nr) + 1]
        r_of(k) == rules.rows[((k - 1) % nr) + 1]
        Valid(k) ==
            LET x == select_ratio(rules, r_of(k), c_of(k).SeasonLabel)
            IN x.kind = "num" /\ x.v > 0
        ks == SelectSeq([k \in 1..(nc * nr) |-> k], Valid)
    IN [exc |-> "",
        rows |-> [i \in 1..Len(ks) |->
                     plan_record(c_of(ks[i]), rules, r_of(ks[i]))]]

\* census rows outermost, rules innermost; the first raising iteration
\* aborts the call and nothing is returned
generate_staffing_plan(census, rules) ==
    LET nc == Len(census)
        nr == Len(rules.rows)
        c_of(k) == census[((k - 1) \div nr) + 1]
        r_of(k) == rules.rows[((k - 1) % nr) + 1]
        raising == {k \in 1..(nc * nr) :
                       pair_exception(c_of(k), rules, r_of(k)) # ""}
        first == CHOOSE k \in raising : \A j \in raising : k <= j
    IN IF raising # {}
       THEN [exc |-> pair_exception(c_of(first), rules, r_of(first)),
             rows |-> <<>>]
       ELSE [exc |-> "",
             rows |-> [k \in 1..(nc * nr) |->
                          plan_record(c_of(k), rules, r_of(k))]]

\* build_staffing_plan_from_rules is a plain wrapper
build_staffing_plan_from_rules(census, rules) ==
    generate_staffing_plan(census, rules)

-----------------------------------------------------------------------------
(* Inputs of the planner *)

Roles == {"RN", "NA"}
Labels == {"Low", "Medium", "High", "Peak", NoLabel}
Dates == 1..MaxDate

\* sequences over S of length at most n
SeqUpTo(S, n) == UNION {[1..k -> S] : k \in 0..n}

CensusRow(d, c, l) == [Date |-> d, Census |-> c, SeasonLabel |-> l]

RuleRow(role, lo, me, hi, ra) ==
    [Role |-> role, Low |-> lo, Medium |-> me, High |-> hi, Ratio |-> ra]

\* the cells of a column: anything from Cells when present, unread otherwise
ColCells(cols, col, Cells) == IF col \in cols THEN Cells ELSE {NA}

RuleRows(cols, RoleSet, Cells) ==
    {RuleRow(role, lo, me, hi, ra) :
        role \in (IF "Role" \in cols THEN RoleSet ELSE {NoValue}),
        lo \in ColCells(cols, "Low", Cells),
        me \in ColCells(cols, "Medium", Cells),
        hi \in ColCells(cols, "High", Cells),
        ra \in ColCells(cols, "Ratio", Cells)}

\* load_census_minimal, load_census_from_excel: pd.to_numeric(errors="coerce")
\* then dropna; a row stays when its Census is a number, of either sign
load_census_keeps(c_row) == c_row.Census.kind = "num"

\* one census row against one rule, every column layout, every kind of cell
WideCensusCells == {Num(c) : c \in (0 - 1)..TableMaxCensus}
WideRatioCells == {Num(r) : r \in 0..TableMaxRatio} \cup {NaN}

WideCensusTables ==
    {<<CensusRow(1, c, l)>> : c \in WideCensusCells, l \in Labels}

WideRulesTables ==
    UNION {{[cols |-> {"Role"} \cup S, rows |-> <<r>>] :
               r \in RuleRows({"Role"} \cup S, {"RN"}, WideRatioCells)} :
           S \in SUBSET RatioCols}

\* several census rows against several rules, few kinds of cell
NarrowCensusTables ==
    SeqUpTo({CensusRow(d, Num(TableMaxCensus), l) :
                d \in Dates, l \in {"High", NoLabel}}, MaxCensusRows)

NarrowColSets ==
    {{"Role", "Ratio"}, {"Role", "Low", "Medium", "High"}, {"Ratio"}}

NarrowRulesTables ==
    UNION {{[cols |-> cols, rows |-> rows] :
               rows \in SeqUpTo(RuleRows(cols, Roles,
                                         {Num(1), Num(TableMaxRatio)}),
                                MaxRules)} :
           cols \in NarrowColSets}

InitPlan ==
    /\ pc = "loaded"
    /\ \/ /\ census_df \in WideCensusTables
          /\ rules_df \in WideRulesTables
       \/ /\ census_df \in NarrowCensusTables
          /\ rules_df \in NarrowRulesTables
    /\ fn_census = NaN
    /\ fn_ratio = NaN
    /\ fn_result = [staff_needed |-> 0, ceil_div |-> 0]
    /\ resources_df = [cols |-> {}, rows |-> <<>>]
    /\ pos_ctrl_df = [cols |-> {}, rows |-> <<>>]
    /\ gap_df = <<>>
    /\ shifts_df = [given |-> FALSE, cols |-> {}, rows |-> <<>>]
    /\ shifts_cfg = <<>>
    /\ plan_df = <<>>
    /\ comp_df = <<>>
    /\ schedule_df = <<>>
    /\ error = ""
    /\ SeasonIdle
    /\ OutIdle
    /\ HiraIdle

\* a run that saves the Staffing Plan sheet as soon as the plan is built
BuildPlan_writes ==
    /\ pc = "loaded"
    /\ LET res == build_staffing_plan_from_rules(census_df, rules_df)
       IN /\ plan_df' = res.rows
          /\ error' = res.exc
          /\ pc' = IF res.exc = "" THEN "planned" ELSE "failed"
          /\ written' = [written EXCEPT !.exists = TRUE,
                                        !.StaffingPlan = res.rows]
    /\ UNCHANGED <<fn_census, fn_ratio, fn_result, census_df, rules_df,
                   resources_df, shifts_df, shifts_cfg, pos_ctrl_df, comp_df,
                   gap_df, schedule_df, season_vars, run_date, season_summary,
                   summary_df, first_out, hira_vars>>

\* plan_df = build_staffing_plan_from_rules(census_df, rules_df)
BuildPlan ==
    /\ pc = "loaded"
    /\ LET res == build_staffing_plan_from_rules(census_df, rules_df)
       IN /\ plan_df' = res.rows
          /\ error' = res.exc
          /\ pc' = IF res.exc = "" THEN "planned" ELSE "failed"
    /\ UNCHANGED <<fn_census, fn_ratio, fn_result, census_df, rules_df,
                   resources_df, shifts_df, shifts_cfg, pos_ctrl_df, comp_df,
                   gap_df, schedule_df, season_vars, out_vars, hira_vars>>

NextPlan == BuildPlan

SpecPlan == InitPlan /\ [][NextPlan]_vars

-----------------------------------------------------------------------------
(* Shift allocator: assign_staff_to_shifts *)

\* groupby sorts its groups by key: dates in order, then role, then label
RoleRank(role) == IF role = "NA" THEN 0 ELSE IF role = "RN" THEN 1 ELSE 2
SeasonRank(l) ==
    IF l = "High" THEN 0 ELSE IF l = "Low" THEN 1
    ELSE IF l = "Medium" THEN 2 ELSE IF l = "N/A" THEN 3 ELSE 4
KeyRank(key) == ((key[1] * 3) + RoleRank(key[2])) * 5 + SeasonRank(key[3])

RECURSIVE SortKeys(_)
SortKeys(S) ==
    IF S = {} THEN <<>>
    ELSE LET m == CHOOSE k \in S : \A j \in S : KeyRank(k) <= KeyRank(j)
         IN <<m>> \o SortKeys(S \ {m})

RECURSIVE SumNeeded(_, _)
\* grp["Staff_Needed"].sum() over the rows selected by Sel
SumNeeded(plan, Sel) ==
    IF Sel = {} THEN 0
    ELSE LET i == CHOOSE j \in Sel : TRUE
         IN plan[i].Staff_Needed + SumNeeded(plan, Sel \ {i})

ScheduleKeys(plan) ==
    {<<plan[i].Date, plan[i].Role, plan[i].SeasonLabel>> : i \in 1..Len(plan)}

GroupRows(plan, key) ==
    {i \in 1..Len(plan) :
        <<plan[i].Date, plan[i].Role, plan[i].SeasonLabel>> = key}

\* column layouts of a shift table
ExcelTestCols == {"Shift", "Start Time", "End Time", "Hours"}
ExcelLoaderCols == {"Shift", "Start", "End", "Hours", "Label"}
YamlCols == {"name", "start", "end", "hours"}

\* s_row.get(col): the cell, or None when the table has no such column
label_get(cols, block, col) ==
    IF col \in cols THEN block.label ELSE NoValue
cell_get(cols, block, col) ==
    IF col \notin cols THEN None
    ELSE IF col \in {"Start Time", "Start", "start"} THEN block.start
    ELSE IF col \in {"End Time", "End", "end"} THEN block.end
    ELSE block.hours

\* Python's a or b
label_or(a, b) == IF a \in {NoValue, ""} THEN b ELSE a
cell_or(a, b) ==
    IF a.kind = "None" \/ (a.kind = "num" /\ a.v = 0) THEN b ELSE a

\* use_yaml = shifts_df is None or shifts_df.empty
use_yaml(shifts) == (~shifts.given) \/ shifts.rows = <<>>

\* a lookup that resolves only the first block of the role's list
cfg_get_first(cfg, role) ==
    IF role \in DOMAIN cfg THEN <<Head(cfg[role])>> ELSE <<>>

\* shifts_cfg.get(role, [])
cfg_get(cfg, role) == IF role \in DOMAIN cfg THEN cfg[role] ELSE <<>>

\* a distribution that drops the remainder
extra_unit_never(i, remainder, n_shifts) == 0

\* a remainder that goes to the last blocks instead of the first
extra_unit_last(i, remainder, n_shifts) ==
    IF i >= n_shifts - remainder THEN 1 ELSE 0

\* a distribution that hands every block one more than its share
extra_unit_always(i, remainder, n_shifts) == 1

\* 1 if i < remainder else 0, for the block at index i (from 0)
extra_unit(i, remainder, n_shifts) == IF i < remainder THEN 1 ELSE 0

\* a tag that does not follow the table the blocks came from
shift_source_fixed(shifts) == "Excel"

\* source = "YAML" / "Excel"
shift_source(shifts) == IF use_yaml(shifts) THEN "YAML" ELSE "Excel"

\* a loop that skips a group only for want of blocks
skip_group_empty_only(needed, role_shifts) == role_shifts = <<>>

\* the two continue statements: staff_needed == 0, role_shifts.empty
skip_group(needed, role_shifts) == needed = 0 \/ role_shifts = <<>>

\* the records one (date, role, season) group appends to out_records
group_records(plan, shifts, cfg, key) ==
    LET needed == SumNeeded(plan, GroupRows(plan, key))
        role_shifts == IF use_yaml(shifts) THEN cfg_get(cfg, key[2])
                       ELSE shifts.rows
        cols == IF use_yaml(shifts) THEN YamlCols ELSE shifts.cols
        n_shifts == Len(role_shifts)
        base == needed \div n_shifts
        remainder == needed % n_shifts
    IN IF skip_group(needed, role_shifts) THEN <<>>
       ELSE [j \in 1..n_shifts |->
               LET b == role_shifts[j]
               IN [Date |-> key[1],
                   Role |-> key[2],
                   SeasonLabel |-> key[3],
                   Shift |-> label_or(label_get(cols, b, "Shift"),
                                      label_get(cols, b, "name")),
                   Start |-> cell_or(cell_get(cols, b, "Start Time"),
                                     cell_get(cols, b, "start")),
                   End |-> cell_or(cell_get(cols, b, "End Time"),
                                   cell_get(cols, b, "end")),
                   Hours |-> cell_or(cell_get(cols, b, "Hours"),
                                     cell_get(cols, b, "hours")),
                   Assigned |-> base + extra_unit(j - 1, remainder, n_shifts),
                   ShiftSource |-> shift_source(shifts)]]

RECURSIVE ConcatGroups(_, _, _, _)
ConcatGroups(plan, shifts, cfg, keys) ==
    IF keys = <<>> THEN <<>>
    ELSE group_records(plan, shifts, cfg, Head(keys))
            \o ConcatGroups(plan, shifts, cfg, Tail(keys))

\* a plan without rows is a DataFrame without columns: groupby raises KeyError
assign_staff_to_shifts(plan, shifts, cfg) ==
    IF plan = <<>> THEN [exc |-> "KeyError", rows |-> <<>>]
    ELSE [exc |-> "",
          rows |-> ConcatGroups(plan, shifts, cfg,
                                SortKeys(ScheduleKeys(plan)))]

-----------------------------------------------------------------------------
(* Inputs of the allocator *)

Block(l, s, e, h) ==
    [label |-> l, start |-> Num(s), end |-> Num(e), hours |-> Num(h)]

Blocks == {Block("Day", 7, 19, 12), Block("Night", 19, 7, 12),
           Block("Mid", 0, 8, 8)}

\* lists of distinct blocks
BlockLists ==
    {l \in SeqUpTo(Blocks, MaxShifts) :
        \A i, j \in 1..Len(l) : l[i] = l[j] => i = j}

NoShifts == [given |-> FALSE, cols |-> {}, rows |-> <<>>]

ShiftTables ==
    {NoShifts}
    \cup {[given |-> TRUE, cols |-> ExcelLoaderCols, rows |-> <<>>]}
    \cup {[given |-> TRUE, cols |-> c, rows |-> l] :
             c \in {ExcelTestCols, ExcelLoaderCols}, l \in BlockLists \ {<<>>}}

\* the shifts section of settings.yaml: some roles, each with its blocks
CfgLists == {<<Block("Day", 7, 19, 12), Block("Night", 19, 7, 12)>>,
             <<Block("Night", 19, 7, 12), Block("Mid", 0, 8, 8),
               Block("Day", 7, 19, 12)>>}

ShiftConfigs == UNION {[R -> CfgLists] : R \in SUBSET Roles}

PlanRow(d, role, l, t) ==
    [Date |-> d, Department |-> NoValue, Role |-> role, Shift |-> NoValue,
     SeasonLabel |-> l, Census |-> Num(t), RatioUsed |-> Num(1),
     Staff_Needed |-> t]

\* group keys that differ from one another in the date, the role or the label
PlanKeys ==
    {<<d, "RN", "High">> : d \in Dates}
    \cup {<<1, role, "High">> : role \in Roles}
    \cup {<<1, "RN", l>> : l \in {"High", "Low"}}

SchedulePlans ==
    SeqUpTo({PlanRow(k[1], k[2], k[3], t) :
                k \in PlanKeys, t \in 0..MaxNeeded}, MaxPlanRows) \ {<<>>}

InitSchedule ==
    /\ pc = "compared"
    /\ plan_df \in SchedulePlans
    /\ shifts_df \in ShiftTables
    /\ shifts_cfg = <<>>
    /\ fn_census = NaN
    /\ fn_ratio = NaN
    /\ fn_result = [staff_needed |-> 0, ceil_div |-> 0]
    /\ census_df = <<>>
    /\ rules_df = [cols |-> {}, rows |-> <<>>]
    /\ resources_df = [cols |-> {}, rows |-> <<>>]
    /\ pos_ctrl_df = [cols |-> {}, rows |-> <<>>]
    /\ gap_df = <<>>
    /\ comp_df = <<>>
    /\ schedule_df = <<>>
    /\ error = ""
    /\ SeasonIdle
    /\ OutIdle
    /\ HiraIdle

\* schedule_df = assign_staff_to_shifts(plan_df, shifts_df, yaml_path);
\* the configuration is read from the file only on the fallback path, and
\* the file is the same when the run is repeated on the same inputs
AssignStaff ==
    /\ pc = "compared"
    /\ \/ /\ use_yaml(shifts_df)
          /\ shifts_cfg' \in ShiftConfigs
          /\ first_out.exists => shifts_cfg' = shifts_cfg
       \/ /\ ~use_yaml(shifts_df)
          /\ shifts_cfg' = shifts_cfg
    /\ LET res == assign_staff_to_shifts(plan_df, shifts_df, shifts_cfg')
       IN /\ schedule_df' = res.rows
          /\ error' = res.exc
          /\ pc' = IF res.exc = "" THEN "scheduled" ELSE "failed"
    /\ UNCHANGED <<fn_census, fn_ratio, fn_result, census_df, rules_df,
                   resources_df, shifts_df, plan_df, pos_ctrl_df, comp_df,
                   gap_df, season_vars, out_vars, hira_vars>>

NextSchedule == AssignStaff

SpecSchedule == InitSchedule /\ [][NextSchedule]_vars

-----------------------------------------------------------------------------
(* Capacity reconciler: build_position_control, compare_plan_vs_resources *)

\* headers build_position_control takes for the role and the FTE column
RoleHeaders == {"Role", "Position"}
UnitFteHeaders == {"Unit FTEs"}
\* headers compare_plan_vs_resources takes for the FTE column
FteHeaders == {"Unit FTEs", "Unit FTE", "FTEs", "FTE"}

\* out[out["Role"].isin(["RN", "NA"])]
keep_role(role) == role \in {"RN", "NA"}

\* selects the role and FTE columns, renames them to Role and FTEs and keeps
\* the RN and NA rows; raises ValueError when either column is not found
build_position_control(resources) ==
    IF resources.cols \cap RoleHeaders = {} \/ resources.cols \cap UnitFteHeaders = {}
    THEN [exc |-> "ValueError", cols |-> {}, rows |-> <<>>]
    ELSE LET Keep(r) == keep_role(r.Role)
             kept == SelectSeq(resources.rows, Keep)
         IN [exc |-> "",
             cols |-> {"Role", "FTEs"},
             rows |-> [i \in 1..Len(kept) |->
                         [Department |-> NoValue, Role |-> kept[i].Role,
                          Shift |-> NoValue, FTE |-> kept[i].FTE]]]

RECURSIVE SumFTE(_, _)
\* groupby(...).agg({fte_col: "sum"}): NaN cells are skipped
SumFTE(rows, Sel) ==
    IF Sel = {} THEN 0
    ELSE LET i == CHOOSE j \in Sel : TRUE
         IN (IF rows[i].FTE.kind = "num" THEN rows[i].FTE.v ELSE 0)
               + SumFTE(rows, Sel \ {i})

RoleRows(rows, role) == {i \in 1..Len(rows) : rows[i].Role = role}

CompareKeys(plan) == {<<plan[i].Date, plan[i].Role>> : i \in 1..Len(plan)}
CompareRank(key) == (key[1] * 3) + RoleRank(key[2])

RECURSIVE SortCompareKeys(_)
SortCompareKeys(S) ==
    IF S = {} THEN <<>>
    ELSE LET m == CHOOSE k \in S : \A j \in S : CompareRank(k) <= CompareRank(j)
         IN <<m>> \o SortCompareKeys(S \ {m})

DateRoleRows(plan, key) ==
    {i \in 1..Len(plan) : <<plan[i].Date, plan[i].Role>> = key}

RolesOf(rows) == {rows[i].Role : i \in 1..Len(rows)}

RECURSIVE SortRoles(_)
SortRoles(S) ==
    IF S = {} THEN <<>>
    ELSE LET m == CHOOSE r \in S : \A q \in S : RoleRank(r) <= RoleRank(q)
         IN <<m>> \o SortRoles(S \ {m})

\* available = resources_df.groupby("Role").agg({fte_col: "sum"}): one row
\* per role of the normalised resources, which carry no department or shift
capacity_table(rows) ==
    LET roles == SortRoles(RolesOf(rows))
    IN [k \in 1..Len(roles) |->
          [Department |-> NoValue,
           Role |-> roles[k],
           Shift |-> NoValue,
           Available |-> SumFTE(rows, RoleRows(rows, roles[k]))]]

\* a shortage computed the wrong way round
shortage_of_reversed(needed, available) ==
    IF available - needed < 0 THEN 0 ELSE available - needed

\* (comp["Needed"] - comp["Available"]).clip(lower=0)
shortage_of(needed, available) ==
    IF needed - available < 0 THEN 0 ELSE needed - available

\* (comp["Available"] - comp["Needed"]).clip(lower=0)
surplus_of(needed, available) ==
    IF available - needed < 0 THEN 0 ELSE available - needed

\* needed.merge(available, on="Role", how="left"): every needed row stays
merge_keeps(rows, role) == TRUE

\* the Available of a role: the sum of its FTE, 0 (fillna) when it has no row
fill_available(rows, role, needed) ==
    IF RoleRows(rows, role) = {} THEN 0
    ELSE SumFTE(rows, RoleRows(rows, role))

comparison_record(plan, rows, key) ==
    LET needed == SumNeeded(plan, DateRoleRows(plan, key))
        available == fill_available(rows, key[2], needed)
    IN [Date |-> key[1],
        Role |-> key[2],
        Needed |-> needed,
        Available |-> available,
        Gap |-> available - needed,
        Shortage |-> shortage_of(needed, available),
        Surplus |-> surplus_of(needed, available)]

\* logic/position_control.py: one row per (Date, Role) of the plan
compare_plan_vs_resources(plan, resources) ==
    IF resources.cols \cap FteHeaders = {}
    THEN [exc |-> "ValueError", rows |-> <<>>]
    ELSE IF plan = <<>> \/ "Role" \notin resources.cols
    THEN [exc |-> "KeyError", rows |-> <<>>]
    ELSE LET keys == SortCompareKeys(CompareKeys(plan))
             Kept(key) == merge_keeps(resources.rows, key[2])
             kept == SelectSeq(keys, Kept)
         IN [exc |-> "",
             rows |-> [i \in 1..Len(kept) |->
                         comparison_record(plan, resources.rows, kept[i])]]

\* the rows one (Date, Role) summary row yields in the left merge with the
\* resource rows themselves: one per resource row of the role, or one alone
gap_records(plan, rows, key) ==
    LET needed == SumNeeded(plan, DateRoleRows(plan, key))
        IsRole(r) == r.Role = key[2]
        matches == SelectSeq(rows, IsRole)
        rec(fte) == [Date |-> key[1], Role |-> key[2],
                     Staff_Needed |-> needed, FTEs |-> fte,
                     Gap |-> fte - needed]
    IN IF matches = <<>> THEN <<rec(0)>>
       ELSE [i \in 1..Len(matches) |->
               rec(IF matches[i].FTE.kind = "num" THEN matches[i].FTE.v ELSE 0)]

RECURSIVE ConcatGaps(_, _, _)
ConcatGaps(plan, rows, keys) ==
    IF keys = <<>> THEN <<>>
    ELSE gap_records(plan, rows, Head(keys)) \o ConcatGaps(plan, rows, Tail(keys))

\* pipeline/position_control.py: merges on Role without aggregating, Gap only
compare_plan_vs_resources_pipeline(plan, resources) ==
    IF plan = <<>> \/ "Role" \notin resources.cols \/ "FTEs" \notin resources.cols
    THEN [exc |-> "KeyError", rows |-> <<>>]
    ELSE [exc |-> "",
          rows |-> ConcatGaps(plan, resources.rows,
                              SortCompareKeys(CompareKeys(plan)))]

-----------------------------------------------------------------------------
(* Inputs of the reconciler *)

ResourceRow(dept, role, shift, fte) ==
    [Department |-> dept, Role |-> role, Shift |-> shift, FTE |-> fte]

FteCells == {Num(f) : f \in 1..MaxFTE} \cup {NaN}

\* resources of one department: RN on the Night shift and floating ("All"),
\* NA on the Night shift only, and a role the normalisation leaves out
ResourceKeys ==
    {<<"A", "RN", "Night">>, <<"A", "RN", "All">>, <<"A", "NA", "Night">>,
     <<"A", "Tech", "Day">>}

ResourceRows ==
    {ResourceRow(k[1], k[2], k[3], f) : k \in ResourceKeys, f \in FteCells}

\* headers of a workbook that carries "Unit FTEs"
WorkbookCols == {"Department", "Role", "Unit FTEs", "Shift"}
\* headers load_resources_from_excel returns
LoaderCols == {"Department", "Role", "Name", "FTE", "Shift", "Start", "End"}
\* a table without a role column
NoRoleCols == {"Department", "Unit FTEs", "Shift"}

ResourceTables ==
    {[cols |-> WorkbookCols, rows |-> rows] :
        rows \in SeqUpTo(ResourceRows, MaxResources)}
    \cup {[cols |-> c, rows |-> <<r>>] :
             c \in {LoaderCols, NoRoleCols}, r \in ResourceRows}

DemandRow(d, dept, role, shift, t) ==
    [Date |-> d, Department |-> dept, Role |-> role, Shift |-> shift,
     SeasonLabel |-> "Medium", Census |-> Num(t), RatioUsed |-> Num(1),
     Staff_Needed |-> t]

\* demand keys that differ in the date or in the role and shift
DemandKeys ==
    {<<d, "A", "RN", "Night">> : d \in Dates} \cup {<<1, "A", "NA", "Day">>}

ComparePlans ==
    SeqUpTo({DemandRow(k[1], k[2], k[3], k[4], t) :
                k \in DemandKeys, t \in 0..MaxNeeded}, MaxPlanRows) \ {<<>>}

InitCompare ==
    /\ pc = "planned"
    /\ plan_df \in ComparePlans
    /\ resources_df \in ResourceTables
    /\ pos_ctrl_df = [cols |-> {}, rows |-> <<>>]
    /\ fn_census = NaN
    /\ fn_ratio = NaN
    /\ fn_result = [staff_needed |-> 0, ceil_div |-> 0]
    /\ census_df = <<>>
    /\ rules_df = [cols |-> {}, rows |-> <<>>]
    /\ shifts_df = NoShifts
    /\ shifts_cfg = <<>>
    /\ comp_df = <<>>
    /\ gap_df = <<>>
    /\ schedule_df = <<>>
    /\ error = ""
    /\ SeasonIdle
    /\ OutIdle
    /\ HiraIdle

\* pos_ctrl_df = build_position_control(resources_df)
\* comp_df = compare_plan_vs_resources(plan_df, pos_ctrl_df)
Reconcile ==
    /\ pc = "planned"
    /\ LET pos == build_position_control(resources_df)
           comp == compare_plan_vs_resources(plan_df, pos)
           gaps == compare_plan_vs_resources_pipeline(plan_df, pos)
       IN IF pos.exc # ""
          THEN /\ pos_ctrl_df' = pos_ctrl_df
               /\ comp_df' = comp_df
               /\ gap_df' = gap_df
               /\ error' = pos.exc
               /\ pc' = "failed"
          ELSE /\ pos_ctrl_df' = [cols |-> pos.cols, rows |-> pos.rows]
               /\ comp_df' = comp.rows
               /\ gap_df' = gaps.rows
               /\ error' = comp.exc
               /\ pc' = IF comp.exc = "" THEN "compared" ELSE "failed"
    /\ UNCHANGED <<fn_census, fn_ratio, fn_result, census_df, rules_df,
                   resources_df, shifts_df, shifts_cfg, plan_df, schedule_df,
                   season_vars, out_vars, hira_vars>>

NextCompare == Reconcile

SpecCompare == InitCompare /\ [][NextCompare]_vars

-----------------------------------------------------------------------------
(* Season labeler: apply_nash_seasonality *)

\* SeasonFactor in tenths: 1.1, 0.9 and 1.0
FactorHigh == 11
FactorLow == 9
FactorDefault == 10

\* row["Month"] in rule["months"] and row["Weekday"] in rule["weekdays"]
rule_matches(rule, month, weekday) ==
    month \in rule.months /\ weekday \in rule.weekdays

\* a scan in which a later matching rule overrides an earlier one
map_label_last(rules, month, weekday) ==
    LET hits == {j \in 1..Len(rules) : rule_matches(rules[j], month, weekday)}
    IN IF hits = {} THEN "Medium"
       ELSE rules[CHOOSE j \in hits : \A k \in hits : k <= j].season

\* a scan that falls back to the lowest regime
map_label_low(rules, month, weekday) ==
    LET hits == {j \in 1..Len(rules) : rule_matches(rules[j], month, weekday)}
    IN IF hits = {} THEN "Low"
       ELSE rules[CHOOSE j \in hits : \A k \in hits : j <= k].season

\* the season of the first rule, in the given order, that matches
map_label(rules, month, weekday) ==
    LET hits == {j \in 1..Len(rules) : rule_matches(rules[j], month, weekday)}
    IN IF hits = {} THEN "Medium"
       ELSE rules[CHOOSE j \in hits : \A k \in hits : j <= k].season

label_to_factor(label) ==
    IF label = "High" THEN FactorHigh
    ELSE IF label = "Low" THEN FactorLow
    ELSE FactorDefault

\* a copy of the census with Month, Weekday, SeasonLabel and SeasonFactor
apply_nash_seasonality(census, rules) ==
    [i \in 1..Len(census) |->
        LET month == census[i].Date.month
            weekday == census[i].Date.dayofweek
            label == map_label(rules, month, weekday)
        IN [Date |-> census[i].Date,
            Census |-> census[i].Census,
            Month |-> month,
            Weekday |-> weekday,
            SeasonLabel |-> label,
            SeasonFactor |-> label_to_factor(label)]]

-----------------------------------------------------------------------------
(* Inputs of the labeler *)

\* a winter and a summer month; a Monday and a Sunday
Months == {1, 7}
Weekdays == {0, 6}

CalendarDate(m, w) == [month |-> m, dayofweek |-> w]

DatedCensusTables ==
    SeqUpTo({[Date |-> CalendarDate(m, w), Census |-> Num(1)] :
                m \in Months, w \in Weekdays}, MaxCensusRows)

SeasonRule(ms, ws, season) ==
    [months |-> ms, weekdays |-> ws, season |-> season]

SeasonRules ==
    {SeasonRule(ms, ws, season) :
        ms \in {{}, {1}, Months}, ws \in {{0}, Weekdays}, season \in SeasonCols}

SeasonRuleLists == SeqUpTo(SeasonRules, MaxSeasonRules)

InitSeason ==
    /\ pc = "census_loaded"
    /\ census_df \in DatedCensusTables
    /\ season_rules \in SeasonRuleLists
    /\ labeled_df = <<>>
    /\ season_arg = "Medium"
    /\ factor_run = NoFactorRun
    /\ OutIdle
    /\ HiraIdle
    /\ fn_census = NaN
    /\ fn_ratio = NaN
    /\ fn_result = [staff_needed |-> 0, ceil_div |-> 0]
    /\ rules_df = [cols |-> {}, rows |-> <<>>]
    /\ resources_df = [cols |-> {}, rows |-> <<>>]
    /\ pos_ctrl_df = [cols |-> {}, rows |-> <<>>]
    /\ gap_df = <<>>
    /\ shifts_df = NoShifts
    /\ shifts_cfg = <<>>
    /\ plan_df = <<>>
    /\ comp_df = <<>>
    /\ schedule_df = <<>>
    /\ error = ""

\* labeled_df = apply_nash_seasonality(census_df, season_rules)
LabelCensus ==
    /\ pc = "census_loaded"
    /\ labeled_df' = apply_nash_seasonality(census_df, season_rules)
    /\ pc' = "labeled"
    /\ UNCHANGED <<fn_census, fn_ratio, fn_result, census_df, rules_df,
                   resources_df, shifts_df, shifts_cfg, plan_df, pos_ctrl_df,
                   comp_df, gap_df, schedule_df, error, season_rules, season_arg,
                   factor_run, out_vars, hira_vars>>

NextSeason == LabelCensus

SpecSeason == InitSeason /\ [][NextSeason]_vars

-----------------------------------------------------------------------------
(* The labeled census handed to the planner *)

FactorValues == {FactorLow, FactorDefault, FactorHigh}

\* the census with its SeasonFactor column overwritten by f
with_factors(census, f) ==
    [i \in 1..Len(census) |-> [census[i] EXCEPT !.SeasonFactor = f[i]]]

\* winter months are High, Mondays are Low, everything else is Medium
FactorSeasonRuleLists ==
    SeqUpTo({SeasonRule({1}, Weekdays, "High"), SeasonRule(Months, {0}, "Low")},
            MaxSeasonRules)

FactorRulesTables ==
    {[cols |-> {"Role", "Low", "Medium", "High"},
      rows |-> <<RuleRow("RN", Num(1), Num(1), Num(TableMaxRatio), NA)>>],
     [cols |-> {"Role", "Ratio"},
      rows |-> <<RuleRow("RN", NA, NA, NA, Num(1))>>]}

InitFactor ==
    /\ pc = "census_loaded"
    /\ census_df \in DatedCensusTables
    /\ season_rules \in FactorSeasonRuleLists
    /\ rules_df \in FactorRulesTables
    /\ labeled_df = <<>>
    /\ season_arg = "Medium"
    /\ factor_run = NoFactorRun
    /\ OutIdle
    /\ HiraIdle
    /\ fn_census = NaN
    /\ fn_ratio = NaN
    /\ fn_result = [staff_needed |-> 0, ceil_div |-> 0]
    /\ resources_df = [cols |-> {}, rows |-> <<>>]
    /\ pos_ctrl_df = [cols |-> {}, rows |-> <<>>]
    /\ gap_df = <<>>
    /\ shifts_df = NoShifts
    /\ shifts_cfg = <<>>
    /\ plan_df = <<>>
    /\ comp_df = <<>>
    /\ schedule_df = <<>>
    /\ error = ""

\* plan_df = build_staffing_plan_from_rules(census_df, rules_df) on the
\* labeled census, and once more on a census with other SeasonFactors
PlanLabeled ==
    /\ pc = "labeled"
    /\ \E f \in [1..Len(labeled_df) -> FactorValues] :
          LET other == with_factors(labeled_df, f)
              res == build_staffing_plan_from_rules(labeled_df, rules_df)
              alt == build_staffing_plan_from_rules(other, rules_df)
          IN /\ plan_df' = res.rows
             /\ error' = res.exc
             /\ pc' = IF res.exc = "" THEN "planned" ELSE "failed"
             /\ factor_run' = [census |-> other, plan |-> alt.rows,
                               exc |-> alt.exc]
    /\ UNCHANGED <<fn_census, fn_ratio, fn_result, census_df, rules_df,
                   resources_df, shifts_df, shifts_cfg, pos_ctrl_df, comp_df,
                   gap_df, schedule_df, season_rules, labeled_df, season_arg,
                   out_vars, hira_vars>>

NextFactor ==
    \/ LabelCensus
    \/ PlanLabeled

SpecFactor == InitFactor /\ [][NextFactor]_vars

-----------------------------------------------------------------------------
(* The whole run: plan, then reconcile, then allocate *)

\* inputs of a whole run: a census of one season, rules with and without the
\* columns the planner reads, resources with and without the headers the
\* reconciler reads, shifts given or left to the configuration
RunCensusTables ==
    SeqUpTo({CensusRow(d, Num(TableMaxCensus), "High") : d \in Dates},
            MaxCensusRows)

RunRulesTables ==
    {[cols |-> {"Role", "Ratio"}, rows |-> <<>>],
     [cols |-> {"Role", "Ratio"},
      rows |-> <<RuleRow("RN", NA, NA, NA, Num(TableMaxRatio))>>],
     [cols |-> {"Role", "Ratio"},
      rows |-> <<RuleRow("RN", NA, NA, NA, Num(TableMaxRatio)),
                 RuleRow("NA", NA, NA, NA, Num(1))>>],
     [cols |-> {"Role", "Low"},
      rows |-> <<RuleRow("RN", Num(1), NA, NA, NA)>>],
     [cols |-> {"Ratio"},
      rows |-> <<RuleRow(NoValue, NA, NA, NA, Num(1))>>]}

RunResourceTables ==
    {[cols |-> WorkbookCols, rows |-> <<>>],
     [cols |-> WorkbookCols,
      rows |-> <<ResourceRow("A", "RN", "Night", Num(1))>>],
     [cols |-> WorkbookCols,
      rows |-> <<ResourceRow("A", "Tech", "Day", Num(1))>>],
     [cols |-> LoaderCols,
      rows |-> <<ResourceRow("A", "RN", "Night", Num(1))>>],
     [cols |-> NoRoleCols,
      rows |-> <<ResourceRow("A", "RN", "Night", Num(1))>>]}

RunShiftTables ==
    {NoShifts,
     [given |-> TRUE, cols |-> ExcelLoaderCols, rows |-> <<>>],
     [given |-> TRUE, cols |-> ExcelLoaderCols,
      rows |-> <<Block("Day", 7, 19, 12), Block("Night", 19, 7, 12)>>]}

\* the days on which a run may take place
RunDays == 1..MaxRunDay

Init ==
    /\ pc = "loaded"
    /\ census_df \in RunCensusTables
    /\ rules_df \in RunRulesTables
    /\ resources_df \in RunResourceTables
    /\ shifts_df \in RunShiftTables
    /\ shifts_cfg = <<>>
    /\ fn_census = NaN
    /\ fn_ratio = NaN
    /\ fn_result = [staff_needed |-> 0, ceil_div |-> 0]
    /\ plan_df = <<>>
    /\ pos_ctrl_df = [cols |-> {}, rows |-> <<>>]
    /\ comp_df = <<>>
    /\ gap_df = <<>>
    /\ schedule_df = <<>>
    /\ error = ""
    /\ SeasonIdle
    /\ OutIdle
    /\ HiraIdle

\* sort_values(["SeasonLabel", "Role", "Shift"]): strings in lexical order
ShiftRank(l) ==
    IF l = "Day" THEN 0 ELSE IF l = "Mid" THEN 1
    ELSE IF l = "Night" THEN 2 ELSE 3
SummaryRank(key) ==
    ((SeasonRank(key[1]) * 3) + RoleRank(key[2])) * 4 + ShiftRank(key[3])

\* the groups of the season summary; groupby drops the rows without a Shift
SummaryKeys(sched) ==
    {<<sched[i].SeasonLabel, sched[i].Role, sched[i].Shift>> :
        i \in {j \in 1..Len(sched) : sched[j].Shift # NoValue}}

RECURSIVE SortSummaryKeys(_)
SortSummaryKeys(S) ==
    IF S = {} THEN <<>>
    ELSE LET m == CHOOSE k \in S : \A j \in S : SummaryRank(k) <= SummaryRank(j)
         IN <<m>> \o SortSummaryKeys(S \ {m})

RECURSIVE AssignedTotal(_, _)
\* agg({"Assigned": "sum"}) over the rows selected by Sel
AssignedTotal(sched, Sel) ==
    IF Sel = {} THEN 0
    ELSE LET i == CHOOSE j \in Sel : TRUE
         IN sched[i].Assigned + AssignedTotal(sched, Sel \ {i})

\* a schedule without records is a DataFrame without columns: KeyError
build_season_summary(sched) ==
    IF sched = <<>> THEN [exc |-> "KeyError", rows |-> <<>>]
    ELSE LET keys == SortSummaryKeys(SummaryKeys(sched))
             Rows(key) == {i \in 1..Len(sched) :
                             <<sched[i].SeasonLabel, sched[i].Role,
                               sched[i].Shift>> = key}
         IN [exc |-> "",
             rows |-> [k \in 1..Len(keys) |->
                          [SeasonLabel |-> keys[k][1],
                           Role |-> keys[k][2],
                           Shift |-> keys[k][3],
                           Assigned |-> AssignedTotal(sched, Rows(keys[k]))]]]

\* datetime.now().strftime("%Y-%m-%d")
run_stamp(today) == today

\* the one row of the Summary sheet
build_summary(today, plan, comp, sched, seasons) ==
    <<[RunDate |-> run_stamp(today),
       InputWorkbook |-> "excel_path",
       ConfigFile |-> "config/settings.yaml",
       StaffingPlanRows |-> Len(plan),
       StaffingVsResourcesRows |-> Len(comp),
       StaffingScheduleRows |-> Len(sched),
       SeasonSummaryRows |-> Len(seasons)]>>

\* the dates are normalised (the same calendar day), then the season summary
\* and the Summary sheet are built; the clock is read here
Summarise ==
    /\ pc = "scheduled"
    /\ LET res == build_season_summary(schedule_df)
       IN IF res.exc # ""
          THEN /\ error' = res.exc
               /\ pc' = "failed"
               /\ UNCHANGED <<run_date, season_summary, summary_df>>
          ELSE /\ run_date' \in RunDays
               /\ season_summary' = res.rows
               /\ summary_df' = build_summary(run_date', plan_df, comp_df,
                                               schedule_df, res.rows)
               /\ error' = ""
               /\ pc' = "summarised"
    /\ UNCHANGED <<fn_census, fn_ratio, fn_result, census_df, rules_df,
                   resources_df, shifts_df, shifts_cfg, plan_df, pos_ctrl_df,
                   comp_df, gap_df, schedule_df, season_vars, written,
                   first_out, hira_vars>>

\* with pd.ExcelWriter(out_path): the five sheets of staffing_outputs.xlsx
WriteOutputs ==
    /\ pc = "summarised"
    /\ written' = [exists |-> TRUE,
                   Summary |-> summary_df,
                   StaffingPlan |-> plan_df,
                   StaffingVsResources |-> comp_df,
                   StaffingSchedule |-> schedule_df,
                   SummaryBySeason |-> season_summary]
    /\ pc' = "written"
    /\ UNCHANGED <<fn_census, fn_ratio, fn_result, census_df, rules_df,
                   resources_df, shifts_df, shifts_cfg, plan_df, pos_ctrl_df,
                   comp_df, gap_df, schedule_df, error, season_vars, run_date,
                   season_summary, summary_df, first_out, hira_vars>>

\* run_pipeline() is called once more on the same workbook and configuration;
\* what the first run wrote is kept aside for comparison
RunAgain ==
    /\ pc = "written"
    /\ ~first_out.exists
    /\ first_out' = written
    /\ pc' = "loaded"
    /\ plan_df' = <<>>
    /\ pos_ctrl_df' = [cols |-> {}, rows |-> <<>>]
    /\ comp_df' = <<>>
    /\ gap_df' = <<>>
    /\ schedule_df' = <<>>
    /\ season_summary' = <<>>
    /\ summary_df' = <<>>
    /\ UNCHANGED <<fn_census, fn_ratio, fn_result, census_df, rules_df,
                   resources_df, shifts_df, shifts_cfg, error, season_vars,
                   run_date, written, hira_vars>>

Next ==
    \/ BuildPlan
    \/ Reconcile
    \/ AssignStaff
    \/ Summarise
    \/ WriteOutputs
    \/ RunAgain

Spec == Init /\ [][Next]_vars

-----------------------------------------------------------------------------
(* Manual-season planner: logic/staffing_plan.build_staffing_plan *)

\* SEASON_KEYS
SEASON_KEYS(key) ==
    IF key = "High" THEN "Ratio_High"
    ELSE IF key = "Medium" THEN "Ratio_Medium"
    ELSE "Ratio_Low"

\* str(season).title(): first letter upper case, the rest lower case
title(str) ==
    IF str \in {"high", "HIGH", "High"} THEN "High"
    ELSE IF str \in {"medium", "Medium"} THEN "Medium"
    ELSE IF str \in {"low", "Low"} THEN "Low"
    ELSE str

GridIdCols == {"Department", "Role", "Shift"}

\* the rows of census x grid: census rows outermost
grid_record(c_row, g_row, col) ==
    [Date |-> c_row.Date,
     Hour |-> c_row.Hour,
     Department |-> g_row.Department,
     Role |-> g_row.Role,
     Shift |-> g_row.Shift,
     Census |-> c_row.Census,
     RatioUsed |-> g_row[col],
     Staff_Needed |-> _ceil_div(c_row.Census, g_row[col])]

\* sort_values(["Date", "Hour", "Department", "Role", "Shift"])
GridRank(r) ==
    (((r.Date * 24) + r.Hour) * 3 + RoleRank(r.Role)) * 4 + ShiftRank(r.Shift)

RECURSIVE SortGridRows(_, _)
\* the rows at the positions of S in sorted order, equal keys in input order
SortGridRows(rows, S) ==
    IF S = {} THEN <<>>
    ELSE LET m == CHOOSE i \in S :
                     \A j \in S : \/ GridRank(rows[i]) < GridRank(rows[j])
                                   \/ /\ GridRank(rows[i]) = GridRank(rows[j])
                                      /\ i <= j
         IN <<rows[m]>> \o SortGridRows(rows, S \ {m})

build_staffing_plan(census, grid, requested) ==
    IF title(requested) \notin SeasonCols
    THEN [exc |-> "ValueError", rows |-> <<>>]
    ELSE IF SEASON_KEYS(title(requested)) \notin grid.cols
    THEN [exc |-> "ValueError", rows |-> <<>>]
    ELSE IF ~(GridIdCols \subseteq grid.cols)
    THEN [exc |-> "KeyError", rows |-> <<>>]
    ELSE LET col == SEASON_KEYS(title(requested))
             nc == Len(census)
             nr == Len(grid.rows)
             merged == [k \in 1..(nc * nr) |->
                          grid_record(census[((k - 1) \div nr) + 1],
                                      grid.rows[((k - 1) % nr) + 1], col)]
         IN [exc |-> "", rows |-> SortGridRows(merged, 1..(nc * nr))]

-----------------------------------------------------------------------------
(* Inputs of the manual-season planner *)

GridRow(dept, role, shift, hi, me, lo) ==
    [Department |-> dept, Role |-> role, Shift |-> shift,
     Ratio_High |-> hi, Ratio_Medium |-> me, Ratio_Low |-> lo]

GridRows ==
    {GridRow("A", "RN", "Day", Num(1), Num(TableMaxRatio), NaN),
     GridRow("A", "NA", "Night", Num(1), Num(TableMaxRatio), Num(0)),
     GridRow("A", "RN", "Night", Num(TableMaxRatio), Num(1), Num(1))}

GridColSets ==
    {GridIdCols \cup {"Ratio_High", "Ratio_Medium", "Ratio_Low"},
     GridIdCols \cup {"Ratio_Medium", "Ratio_Low"},
     {"Role", "Shift", "Ratio_High", "Ratio_Medium", "Ratio_Low"},
     {"Department", "Shift", "Ratio_High", "Ratio_Medium", "Ratio_Low"}}

GridTables ==
    {[cols |-> c, rows |-> rows] :
        c \in GridColSets, rows \in SeqUpTo(GridRows, MaxRules)}

HourlyCensusTables ==
    SeqUpTo({[Date |-> d, Hour |-> 0, Census |-> Num(TableMaxCensus)] :
                d \in Dates}, MaxCensusRows)

SeasonArgs == {"High", "Medium", "Low", "high", "Peak", ""}

InitGrid ==
    /\ pc = "grid_loaded"
    /\ census_df \in HourlyCensusTables
    /\ rules_df \in GridTables
    /\ season_arg \in SeasonArgs
    /\ season_rules = <<>>
    /\ labeled_df = <<>>
    /\ factor_run = NoFactorRun
    /\ OutIdle
    /\ HiraIdle
    /\ fn_census = NaN
    /\ fn_ratio = NaN
    /\ fn_result = [staff_needed |-> 0, ceil_div |-> 0]
    /\ resources_df = [cols |-> {}, rows |-> <<>>]
    /\ pos_ctrl_df = [cols |-> {}, rows |-> <<>>]
    /\ gap_df = <<>>
    /\ shifts_df = NoShifts
    /\ shifts_cfg = <<>>
    /\ plan_df = <<>>
    /\ comp_df = <<>>
    /\ schedule_df = <<>>
    /\ error = ""

\* plan_df = build_staffing_plan(census_df, grid_df, season)
BuildGridPlan ==
    /\ pc = "grid_loaded"
    /\ LET res == build_staffing_plan(census_df, rules_df, season_arg)
       IN /\ plan_df' = res.rows
          /\ error' = res.exc
          /\ pc' = IF res.exc = "" THEN "planned" ELSE "failed"
    /\ UNCHANGED <<fn_census, fn_ratio, fn_result, census_df, rules_df,
                   resources_df, shifts_df, shifts_cfg, pos_ctrl_df, comp_df,
                   gap_df, schedule_df, season_vars, out_vars, hira_vars>>

NextGrid == BuildGridPlan

SpecGrid == InitGrid /\ [][NextGrid]_vars

-----------------------------------------------------------------------------
(* The two planners on tables of several rows with unusable ratios *)

\* ratio cells of a rules table: a positive ratio, a zero and an empty cell
CrossRatioCells == {Num(TableMaxRatio), Num(0), NaN}

CrossColSets == {{"Role", "Ratio"}, {"Role", "High"}, {"Role", "Low"}}

CrossRulesTables ==
    UNION {{[cols |-> cols, rows |-> rows] :
               rows \in SeqUpTo(RuleRows(cols, Roles, CrossRatioCells),
                                MaxRules)} :
           cols \in CrossColSets}

InitCross ==
    /\ \/ /\ pc = "loaded"
          /\ census_df \in RunCensusTables
          /\ rules_df \in CrossRulesTables
          /\ season_arg = "Medium"
       \/ /\ pc = "grid_loaded"
          /\ census_df \in HourlyCensusTables
          /\ rules_df \in GridTables
          /\ season_arg \in SeasonArgs
    /\ season_rules = <<>>
    /\ labeled_df = <<>>
    /\ factor_run = NoFactorRun
    /\ OutIdle
    /\ HiraIdle
    /\ fn_census = NaN
    /\ fn_ratio = NaN
    /\ fn_result = [staff_needed |-> 0, ceil_div |-> 0]
    /\ resources_df = [cols |-> {}, rows |-> <<>>]
    /\ pos_ctrl_df = [cols |-> {}, rows |-> <<>>]
    /\ gap_df = <<>>
    /\ shifts_df = NoShifts
    /\ shifts_cfg = <<>>
    /\ plan_df = <<>>
    /\ comp_df = <<>>
    /\ schedule_df = <<>>
    /\ error = ""

NextCross ==
    \/ BuildPlan
    \/ BuildGridPlan

SpecCross == InitCross /\ [][NextCross]_vars

-----------------------------------------------------------------------------
(* Shift spans and hourly consolidation: logic/hira_pipeline.py *)

HoursPerDay == 24

\* list(range(a, b))
range(a, b) == IF b > a THEN [i \in 1..(b - a) |-> a + i - 1] ELSE <<>>

\* int(float(x)) raises TypeError for None and pd.NA, ValueError for NaN
int_raises(x) == x.kind # "num"

\* a span that stops at midnight instead of wrapping
_hours_in_span_no_wrap(start_h, end_h) ==
    IF int_raises(start_h) \/ int_raises(end_h) THEN <<>>
    ELSE IF start_h.v < end_h.v THEN range(start_h.v, end_h.v)
    ELSE IF start_h.v > end_h.v THEN range(start_h.v, HoursPerDay)
    ELSE range(0, HoursPerDay)

\* the hours of a shift span, in order; the empty list when start or end is
\* not a number
_hours_in_span(start_h, end_h) ==
    IF int_raises(start_h) \/ int_raises(end_h) THEN <<>>
    ELSE IF start_h.v < end_h.v THEN range(start_h.v, end_h.v)
    ELSE IF start_h.v > end_h.v
         THEN range(start_h.v, HoursPerDay) \o range(0, end_h.v)
    ELSE range(0, HoursPerDay)

\* hr in _hours_in_span(s, e); hr is None when the Hour cell is missing
hour_in_span(hr, s, e) ==
    /\ hr.kind = "num"
    /\ \E i \in 1..Len(_hours_in_span(s, e)) : _hours_in_span(s, e)[i] = hr.v

\* day 0 is a Monday: Date.dt.day_name() in ["Saturday", "Sunday"]
is_weekend(date) == (date % 7) \in {5, 6}

\* shift_blocks["weekend"] if IsWeekend else shift_blocks["weekday"]
blocks_for(blocks, date) ==
    IF is_weekend(date) THEN blocks.weekend ELSE blocks.weekday

\* a scan without the break, in which the last matching block wins
matched_block_last(hr, blocks) ==
    LET hits == {j \in 1..Len(blocks) :
                    hour_in_span(hr, blocks[j].s, blocks[j].e)}
    IN IF hits = {} THEN 0 ELSE CHOOSE j \in hits : \A k \in hits : k <= j

\* the position of the block a record is appended for: the first one whose
\* span holds its hour (then break), 0 when there is none
matched_block(hr, blocks) ==
    LET hits == {j \in 1..Len(blocks) :
                    hour_in_span(hr, blocks[j].s, blocks[j].e)}
    IN IF hits = {} THEN 0 ELSE CHOOSE j \in hits : \A k \in hits : j <= k

\* the rows list: one dict per hourly record that found a block
matched_rows(need, blocks) ==
    LET Found(r) == matched_block(r.Hour, blocks_for(blocks, r.Date)) # 0
        found == SelectSeq(need, Found)
    IN [i \in 1..Len(found) |->
          LET r == found[i]
              b == blocks_for(blocks, r.Date)[
                       matched_block(r.Hour, blocks_for(blocks, r.Date))]
          IN [Date |-> r.Date,
              IsWeekend |-> is_weekend(r.Date),
              ShiftLabel |-> b.label,
              ShiftStart |-> b.s,
              ShiftEnd |-> b.e,
              Hourly_FTE_Needed |-> r.Hourly_FTE_Needed]]

ShiftKey(r) == <<r.Date, r.ShiftLabel, r.ShiftStart, r.ShiftEnd>>

\* groupby sorts by Date, ShiftLabel, ShiftStart, ShiftEnd (DayOfWeek and
\* IsWeekend follow from the date)
ShiftKeyRank(key) ==
    (((key[1] * 4) + ShiftRank(key[2])) * HoursPerDay + key[3].v)
        * HoursPerDay + key[4].v

RECURSIVE SortShiftKeys(_)
SortShiftKeys(S) ==
    IF S = {} THEN <<>>
    ELSE LET m == CHOOSE k \in S :
                     \A j \in S : ShiftKeyRank(k) <= ShiftKeyRank(j)
         IN <<m>> \o SortShiftKeys(S \ {m})

RECURSIVE SumHourly(_, _)
\* .sum() of Hourly_FTE_Needed over the rows selected by Sel
SumHourly(rows, Sel) ==
    IF Sel = {} THEN 0
    ELSE LET i == CHOOSE j \in Sel : TRUE
         IN rows[i].Hourly_FTE_Needed + SumHourly(rows, Sel \ {i})

\* pd.DataFrame(rows).groupby([...]).sum(); without rows the frame has no
\* columns and groupby raises KeyError
pq_consolidate_to_shifts(need, blocks) ==
    LET rows == matched_rows(need, blocks)
        keys == SortShiftKeys({ShiftKey(rows[i]) : i \in 1..Len(rows)})
        Of(key) == {i \in 1..Len(rows) : ShiftKey(rows[i]) = key}
    IN IF rows = <<>> THEN [exc |-> "KeyError", rows |-> <<>>]
       ELSE [exc |-> "",
             rows |-> [k \in 1..Len(keys) |->
                          [Date |-> keys[k][1],
                           IsWeekend |-> is_weekend(keys[k][1]),
                           ShiftLabel |-> keys[k][2],
                           ShiftStart |-> keys[k][3],
                           ShiftEnd |-> keys[k][4],
                           Hourly_FTE_Needed |->
                               SumHourly(rows, Of(keys[k]))]]]

-----------------------------------------------------------------------------
(* Inputs of the span function and of the consolidation *)

\* start and end cells: every hour of the day, one before, up to two past,
\* and cells that are not numbers
SpanCells == {Num(h) : h \in (0 - 1)..(HoursPerDay + 1)} \cup {NaN, None, NA}

InitSpan ==
    /\ pc = "span_call"
    /\ span_start \in SpanCells
    /\ span_end \in SpanCells
    /\ span_hours = <<>>
    /\ hourly_need = <<>>
    /\ shift_blocks = NoBlocks
    /\ need_by_shift = <<>>
    /\ fn_census = NaN
    /\ fn_ratio = NaN
    /\ fn_result = [staff_needed |-> 0, ceil_div |-> 0]
    /\ SeasonIdle
    /\ OutIdle
    /\ census_df = <<>>
    /\ rules_df = [cols |-> {}, rows |-> <<>>]
    /\ resources_df = [cols |-> {}, rows |-> <<>>]
    /\ pos_ctrl_df = [cols |-> {}, rows |-> <<>>]
    /\ gap_df = <<>>
    /\ shifts_df = NoShifts
    /\ shifts_cfg = <<>>
    /\ plan_df = <<>>
    /\ comp_df = <<>>
    /\ schedule_df = <<>>
    /\ error = ""

\* span_hours = _hours_in_span(span_start, span_end)
HoursInSpan ==
    /\ pc = "span_call"
    /\ span_hours' = _hours_in_span(span_start, span_end)
    /\ pc' = "span_done"
    /\ UNCHANGED <<fn_census, fn_ratio, fn_result, census_df, rules_df,
                   resources_df, shifts_df, shifts_cfg, plan_df, pos_ctrl_df,
                   comp_df, gap_df, schedule_df, error, season_vars, out_vars,
                   span_start, span_end, hourly_need, shift_blocks,
                   need_by_shift>>

NextSpan == HoursInSpan

SpecSpan == InitSpan /\ [][NextSpan]_vars

ShiftBlock(l, s, e) == [label |-> l, s |-> Num(s), e |-> Num(e)]

\* weekday lists: Mid overlaps Day and Night, Night wraps past midnight
WeekdayBlockLists ==
    {<<>>,
     <<ShiftBlock("Day", 7, 19)>>,
     <<ShiftBlock("Day", 7, 19), ShiftBlock("Night", 19, 7)>>,
     <<ShiftBlock("Day", 7, 19), ShiftBlock("Mid", 11, 23),
       ShiftBlock("Night", 19, 7)>>,
     <<ShiftBlock("Mid", 11, 23), ShiftBlock("Night", 19, 7),
       ShiftBlock("Day", 7, 19)>>}

\* weekend lists: nothing, or one block for the whole day
WeekendBlockLists == {<<>>, <<ShiftBlock("Day", 7, 7)>>}

\* a Monday and a Saturday
HourlyDates == {0, 5}
HourCells == {Num(0), Num(12), Num(20), NA}

\* Hourly_FTE_Needed = Census / ratio, kept in units of 1 / ratio; the census
\* is whatever number the sheet holds
HourlyRows ==
    {[Date |-> d, Hour |-> h, Hourly_FTE_Needed |-> n] :
        d \in HourlyDates, h \in HourCells, n \in {0 - 1, 1, MaxNeeded}}

InitConsolidate ==
    /\ pc = "hourly_built"
    /\ hourly_need \in SeqUpTo(HourlyRows, MaxCensusRows)
    /\ shift_blocks \in [weekday : WeekdayBlockLists, weekend : WeekendBlockLists]
    /\ need_by_shift = <<>>
    /\ span_start = None
    /\ span_end = None
    /\ span_hours = <<>>
    /\ fn_census = NaN
    /\ fn_ratio = NaN
    /\ fn_result = [staff_needed |-> 0, ceil_div |-> 0]
    /\ SeasonIdle
    /\ OutIdle
    /\ census_df = <<>>
    /\ rules_df = [cols |-> {}, rows |-> <<>>]
    /\ resources_df = [cols |-> {}, rows |-> <<>>]
    /\ pos_ctrl_df = [cols |-> {}, rows |-> <<>>]
    /\ gap_df = <<>>
    /\ shifts_df = NoShifts
    /\ shifts_cfg = <<>>
    /\ plan_df = <<>>
    /\ comp_df = <<>>
    /\ schedule_df = <<>>
    /\ error = ""

\* need_by_shift = pq_consolidate_to_shifts(hourly_need, shift_blocks)
ConsolidateToShifts ==
    /\ pc = "hourly_built"
    /\ LET res == pq_consolidate_to_shifts(hourly_need, shift_blocks)
       IN /\ need_by_shift' = res.rows
          /\ error' = res.exc
          /\ pc' = IF res.exc = "" THEN "consolidated" ELSE "failed"
    /\ UNCHANGED <<fn_census, fn_ratio, fn_result, census_df, rules_df,
                   resources_df, shifts_df, shifts_cfg, plan_df, pos_ctrl_df,
                   comp_df, gap_df, schedule_df, season_vars, out_vars,
                   span_start, span_end, span_hours, hourly_need,
                   shift_blocks>>

NextConsolidate == ConsolidateToShifts

SpecConsolidate == InitConsolidate /\ [][NextConsolidate]_vars

-----------------------------------------------------------------------------
(* Properties *)

\* the census row and the rule behind the k-th iteration of the planner
census_of(k) == census_df[((k - 1) \div Len(rules_df.rows)) + 1]
rule_of(k) == rules_df.rows[((k - 1) % Len(rules_df.rows)) + 1]
Pairs == 1..(Len(census_df) * Len(rules_df.rows))

\* s is the ceiling of c / r, stated without the ceiling function
IsCeiling(s, c, r) == s * r >= c /\ (s - 1) * r < c

\* C4 - Ceiling law: for a census c >= 0 and a ratio r > 0 the result s of
\* staff_needed (and of _ceil_div) satisfies s * r >= c and, when s > 0,
\* (s - 1) * r < c; an exact division adds no unit (12/4 = 3, 10/4 = 3).
C4_CeilingLaw ==
    (/\ pc = "fn_done"
     /\ fn_census.kind = "num" /\ fn_census.v >= 0
     /\ fn_ratio.kind = "num" /\ fn_ratio.v > 0)
    => /\ \A s \in {fn_result.staff_needed, fn_result.ceil_div} :
            /\ s >= 0
            /\ s * fn_ratio.v >= fn_census.v
            /\ (s > 0 => (s - 1) * fn_ratio.v < fn_census.v)
       /\ (fn_census.v = 12 /\ fn_ratio.v = 4 => fn_result.staff_needed = 3)
       /\ (fn_census.v = 10 /\ fn_ratio.v = 4 => fn_result.staff_needed = 3)

C4_Witness ==
    /\ pc = "fn_done"
    /\ fn_census = Num(12)
    /\ fn_ratio = Num(4)
    /\ fn_result = [staff_needed |-> 3, ceil_div |-> 3]

\* the ratio that applies to a census row under a rule: the cell of the
\* record's season column, or of the single Ratio column
ApplicableRatio(c_row, r_row) ==
    select_ratio(rules_df, r_row, c_row.SeasonLabel)

InvalidRatio(x) == x.kind # "num" \/ x.v <= 0

\* C5 - Zero-ratio safety: whenever the applicable ratio of a (census row,
\* rule) combination is <= 0, NaN or missing (its column absent included),
\* the plan is produced without an exception and has Staff_Needed = 0 there.
C5_ZeroRatioSafety ==
    (pc # "loaded" /\ "Role" \in rules_df.cols)
    => \A k \in Pairs :
          InvalidRatio(ApplicableRatio(census_of(k), rule_of(k)))
          => /\ error = ""
             /\ pc = "planned"
             /\ plan_df[k].Staff_Needed = 0

C7_RatioOnlyFallback ==
    (pc # "loaded" /\ "Role" \in rules_df.cols
        /\ rules_df.cols \cap RatioCols = {"Ratio"})
    => /\ pc = "planned"
       /\ \A k \in Pairs :
             LET c == census_of(k)
                 r == rule_of(k)
                 d == plan_df[k]
             IN /\ d.RatioUsed = r.Ratio
                /\ (r.Ratio.kind = "num" /\ r.Ratio.v > 0
                    => IsCeiling(d.Staff_Needed, c.Census.v, r.Ratio.v))

C7_Witness ==
    /\ pc = "planned"
    /\ rules_df.cols = {"Role", "Ratio"}
    /\ \E k \in Pairs :
          /\ census_of(k).SeasonLabel = "High"
          /\ census_of(k).Census = Num(3)
          /\ rule_of(k).Ratio = Num(2)
          /\ plan_df[k].Staff_Needed = 2
    /\ \E k \in Pairs :
          /\ census_of(k).SeasonLabel = NoLabel
          /\ plan_df[k].RatioUsed = rule_of(k).Ratio

\* the blocks the allocator resolves for a role, from the tables of the state
ResolvedBlocks(role) ==
    IF shifts_df.given /\ shifts_df.rows # <<>> THEN shifts_df.rows
    ELSE IF role \in DOMAIN shifts_cfg THEN shifts_cfg[role] ELSE <<>>

\* the total Staff_Needed of a (Date, Role, SeasonLabel) group of the plan
GroupTotal(key) == SumNeeded(plan_df, GroupRows(plan_df, key))

\* the ScheduleRecords of a group, in the order of the schedule
GroupSchedule(key) ==
    LET InGroup(r) == <<r.Date, r.Role, r.SeasonLabel>> = key
    IN SelectSeq(schedule_df, InGroup)

RECURSIVE SumAssigned(_)
SumAssigned(recs) ==
    IF recs = <<>> THEN 0 ELSE Head(recs).Assigned + SumAssigned(Tail(recs))

\* C1 - Allocation conservation: for every (Date, Role, SeasonLabel) group of
\* the plan with total T >= 0 and n >= 1 resolved shift blocks, the Assigned
\* of the group's ScheduleRecords sum to T exactly.
C1_AllocationConservation ==
    pc = "scheduled"
    => \A key \in ScheduleKeys(plan_df) :
          (GroupTotal(key) >= 0 /\ Len(ResolvedBlocks(key[2])) >= 1)
          => SumAssigned(GroupSchedule(key)) = GroupTotal(key)

C1_Witness ==
    /\ pc = "scheduled"
    /\ \E key \in ScheduleKeys(plan_df) :
          /\ GroupTotal(key) = 5
          /\ Cardinality(GroupRows(plan_df, key)) = 2
          /\ Len(ResolvedBlocks(key[2])) = 3
          /\ Len(GroupSchedule(key)) = 3
          /\ SumAssigned(GroupSchedule(key)) = 5

\* C2 - Remainder-first distribution in input order: with n blocks and total
\* T > 0, the record at position i (from 0) of the group is the one of the
\* i-th block as given and is assigned T div n + 1 when i < T mod n and
\* T div n otherwise; T = 5 over [Day, Night] gives Day = 3, Night = 2.
C2_RemainderFirst ==
    pc = "scheduled"
    => \A key \in ScheduleKeys(plan_df) :
          LET T == GroupTotal(key)
              blocks == ResolvedBlocks(key[2])
              n == Len(blocks)
              recs == GroupSchedule(key)
          IN (T > 0 /\ n >= 1)
             => /\ Len(recs) = n
                /\ \A i \in 0..(n - 1) :
                      /\ recs[i + 1].Shift = blocks[i + 1].label
                      /\ recs[i + 1].Assigned =
                            IF i < T % n THEN (T \div n) + 1 ELSE T \div n
                /\ (T = 5 /\ n = 2 => /\ recs[1].Assigned = 3
                                    /\ recs[2].Assigned = 2)

C2_Witness ==
    /\ pc = "scheduled"
    /\ ~use_yaml(shifts_df)
    /\ \E key \in ScheduleKeys(plan_df) :
          /\ GroupTotal(key) = 5
          /\ Len(shifts_df.rows) = 2
          /\ shifts_df.rows[1].label = "Night"
          /\ shifts_df.rows[2].label = "Day"
          /\ GroupSchedule(key)[1].Shift = "Night"
          /\ GroupSchedule(key)[1].Assigned = 3
          /\ GroupSchedule(key)[2].Shift = "Day"
          /\ GroupSchedule(key)[2].Assigned = 2

\* C3 - Source tagging: with a non-empty explicit shift table every
\* ScheduleRecord is tagged "Excel" and carries a block of that table; with
\* the table absent or empty every record is tagged "YAML" and carries a
\* block of the configuration's list for its role.
C3_SourceTagging ==
    pc = "scheduled"
    => \A i \in 1..Len(schedule_df) :
          LET r == schedule_df[i]
          IN /\ (shifts_df.given /\ shifts_df.rows # <<>>)
                => /\ r.ShiftSource = "Excel"
                   /\ \E j \in 1..Len(shifts_df.rows) :
                         shifts_df.rows[j].label = r.Shift
             /\ (~shifts_df.given \/ shifts_df.rows = <<>>)
                => /\ r.ShiftSource = "YAML"
                   /\ r.Role \in DOMAIN shifts_cfg
                   /\ \E j \in 1..Len(shifts_cfg[r.Role]) :
                         shifts_cfg[r.Role][j].label = r.Shift

C3_Witness ==
    /\ pc = "scheduled"
    /\ shifts_df.given
    /\ shifts_df.rows = <<>>
    /\ \E i \in 1..Len(schedule_df) :
          /\ schedule_df[i].ShiftSource = "YAML"
          /\ schedule_df[i].Assigned > 0

Max(a, b) == IF a >= b THEN a ELSE b
Min(a, b) == IF a <= b THEN a ELSE b

CapacityRows(dept, role, shift) ==
    {i \in 1..Len(resources_df.rows) :
        /\ resources_df.rows[i].Department = dept
        /\ resources_df.rows[i].Role = role
        /\ resources_df.rows[i].Shift = shift}

\* the ComparisonRecords that answer a DemandRecord
ComparisonsOf(d) ==
    {i \in 1..Len(comp_df) :
        comp_df[i].Date = d.Date /\ comp_df[i].Role = d.Role}

\* the resource table has the headers the reconciler looks for
ResourceHeadersFound ==
    /\ resources_df.cols \cap RoleHeaders # {}
    /\ resources_df.cols \cap UnitFteHeaders # {}

\* C9 - Fallback capacity: the availableFTE of every DemandRecord is the FTE
\* of the capacity row with its (department, role, shift) when there is one,
\* and otherwise that of the row (department, role, "All") when there is one.
C9_FallbackCapacity ==
    pc = "compared"
    => \A k \in 1..Len(plan_df) :
          LET d == plan_df[k]
              exact == CapacityRows(d.Department, d.Role, d.Shift)
              float == CapacityRows(d.Department, d.Role, "All")
          IN \A i \in ComparisonsOf(d) :
                /\ exact # {}
                   => comp_df[i].Available = SumFTE(resources_df.rows, exact)
                /\ (exact = {} /\ float # {})
                   => comp_df[i].Available = SumFTE(resources_df.rows, float)

\* C10 - Missing capacity defaults to zero: a demand that no capacity row
\* matches, neither (department, role, shift) nor (department, role, "All"),
\* still gets its comparison, with availableFTE = 0, needed unchanged and
\* shortage = needed, and no error is raised.
C10_MissingCapacityZero ==
    (pc # "planned" /\ ResourceHeadersFound)
    => /\ pc = "compared"
       /\ \A k \in 1..Len(plan_df) :
             LET d == plan_df[k]
                 needed == SumNeeded(plan_df,
                                     DateRoleRows(plan_df, <<d.Date, d.Role>>))
             IN (/\ CapacityRows(d.Department, d.Role, d.Shift) = {}
                 /\ CapacityRows(d.Department, d.Role, "All") = {})
                => /\ ComparisonsOf(d) # {}
                   /\ \A i \in ComparisonsOf(d) :
                         /\ comp_df[i].Available = 0
                         /\ comp_df[i].Needed = needed
                         /\ comp_df[i].Shortage = needed

\* the month and the weekday of the i-th census record
MonthOf(i) == census_df[i].Date.month
WeekdayOf(i) == census_df[i].Date.dayofweek

\* the rules of the configuration that match the i-th census record
MatchingRules(i) ==
    {j \in 1..Len(season_rules) :
        /\ MonthOf(i) \in season_rules[j].months
        /\ WeekdayOf(i) \in season_rules[j].weekdays}

\* C11 - Season label defaulting: a census record whose (month, weekday) is
\* matched by no configured SeasonRule, the empty rule list included, gets
\* SeasonLabel "Medium" and SeasonFactor 1.0.
C11_SeasonDefault ==
    pc = "labeled"
    => /\ Len(labeled_df) = Len(census_df)
       /\ \A i \in 1..Len(census_df) :
             MatchingRules(i) = {}
             => /\ labeled_df[i].SeasonLabel = "Medium"
                /\ labeled_df[i].SeasonFactor = FactorDefault

C11_Witness ==
    /\ pc = "labeled"
    /\ Len(season_rules) = 2
    /\ \A j \in 1..2 : season_rules[j].season # "Medium"
    /\ \E i \in 1..Len(census_df) :
          /\ MatchingRules(i) = {}
          /\ labeled_df[i].SeasonLabel = "Medium"
          /\ labeled_df[i].SeasonFactor = 10
    /\ \E i \in 1..Len(census_df) : MatchingRules(i) # {}

\* C12 - First matching season rule wins: the label of every census record
\* is the season of the first rule, in configured order, whose months hold
\* its month and whose weekdays hold its weekday; a later matching rule does
\* not override it, and every record gets exactly one label.
C12_FirstRuleWins ==
    pc = "labeled"
    => /\ Len(labeled_df) = Len(census_df)
       /\ \A i \in 1..Len(census_df) :
             /\ labeled_df[i].Date = census_df[i].Date
             /\ labeled_df[i].SeasonLabel \in SeasonCols
             /\ \A j \in MatchingRules(i) :
                   (\A k \in MatchingRules(i) : j <= k)
                   => labeled_df[i].SeasonLabel = season_rules[j].season

C12_Witness ==
    /\ pc = "labeled"
    /\ \E i \in 1..Len(census_df) :
          /\ MatchingRules(i) = {1, 2}
          /\ season_rules[1].season = "High"
          /\ season_rules[2].season = "Low"
          /\ labeled_df[i].SeasonLabel = "High"
          /\ labeled_df[i].SeasonFactor = FactorHigh

\* C13 - Skipped groups: a (Date, Role, SeasonLabel) group whose total
\* Staff_Needed is 0 or whose resolved block list is empty gets no
\* ScheduleRecord and raises nothing; the other groups are still processed
\* and each of them gets one record per block.
C13_SkippedGroups ==
    pc # "compared"
    => /\ pc = "scheduled"
       /\ error = ""
       /\ \A key \in ScheduleKeys(plan_df) :
             LET T == GroupTotal(key)
                 n == Len(ResolvedBlocks(key[2]))
             IN /\ (T = 0 \/ n = 0) => GroupSchedule(key) = <<>>
                /\ (T # 0 /\ n # 0) => Len(GroupSchedule(key)) = n

C13_Witness ==
    /\ pc = "scheduled"
    /\ error = ""
    /\ \E k1, k2 \in ScheduleKeys(plan_df) :
          /\ GroupTotal(k1) > 0
          /\ ResolvedBlocks(k1[2]) = <<>>
          /\ GroupSchedule(k1) = <<>>
          /\ KeyRank(k2) > KeyRank(k1)
          /\ GroupTotal(k2) > 0
          /\ Len(GroupSchedule(k2)) = 3

\* C14 - Idempotence: a second run of the pipeline on the same inputs writes
\* the same five tables (Summary, Staffing Plan, Staffing vs Resources,
\* Staffing Schedule, Season Summary), rows in the same order; nothing in
\* them depends on the time of the run.
C14_Idempotence ==
    (pc = "written" /\ first_out.exists) => written = first_out

\* C15 - Validation errors abort the run with no partial output: while the
\* run has not come through every stage, and when a plan, compare, schedule
\* or summary step has raised, the output workbook is what it was before the
\* run; it is written only once all stages have completed, and then whole.
C15_NoPartialOutput ==
    /\ pc # "written" => written = first_out
    /\ pc = "failed" => error # ""
    /\ pc = "written"
       => /\ error = ""
          /\ written.exists
          /\ written.Summary = summary_df
          /\ written.StaffingPlan = plan_df
          /\ written.StaffingVsResources = comp_df
          /\ written.StaffingSchedule = schedule_df
          /\ written.SummaryBySeason = season_summary

C15_Witness ==
    /\ pc = "failed"
    /\ error = "ValueError"
    /\ plan_df # <<>>
    /\ comp_df = <<>>
    /\ ~written.exists

\* C16 - Resource-input validation: the reconciler raises a validation error
\* when the resource table has no Role column or no FTE-equivalent column,
\* and accepts every resource table that carries Department, Role and an
\* FTE column (Shift, Start and End being optional).
C16_ResourceValidation ==
    pc # "planned"
    => /\ (resources_df.cols \cap RoleHeaders = {}
            \/ resources_df.cols \cap FteHeaders = {})
          => (pc = "failed" /\ error = "ValueError")
       /\ ({"Department", "Role"} \subseteq resources_df.cols
            /\ resources_df.cols \cap FteHeaders # {})
          => (pc = "compared" /\ error = "")

\* C17 - Unrecognized season label is a validation error: a plan built for a
\* season label outside {Low, Medium, High} against rules that carry season
\* ratios fails with an error and yields no DemandRecord; no demand is
\* computed from some other ratio.
C17_UnknownSeasonRejected ==
    (/\ pc # "loaded"
     /\ "Role" \in rules_df.cols
     /\ has_season_cols(rules_df)
     /\ rules_df.rows # <<>>
     /\ \E i \in 1..Len(census_df) :
           census_df[i].SeasonLabel \notin SeasonCols \cup {NoLabel})
    => /\ pc = "failed"
       /\ error # ""
       /\ plan_df = <<>>

\* C18 - Rules missing identifying columns fail fast: when the staffing
\* rules have no Role column the planner raises an error that reaches the
\* caller and no DemandRecord is produced; no plan is returned for such
\* rules.
C18_RulesFailFast ==
    (pc # "loaded" /\ "Role" \notin rules_df.cols)
    => /\ pc = "failed"
       /\ error # ""
       /\ plan_df = <<>>

\* C19 - Empty-input recovery: with an empty census or empty rules (and a
\* resource table the reconciler accepts) the run raises nothing at any
\* stage, and the Staffing Plan, the Staffing vs Resources and the Staffing
\* Schedule tables are empty.
C19_EmptyInputRecovery ==
    ((census_df = <<>> \/ rules_df.rows = <<>>) /\ ResourceHeadersFound)
    => /\ pc # "failed"
       /\ error = ""
       /\ plan_df = <<>>
       /\ comp_df = <<>>
       /\ schedule_df = <<>>

\* the capacity key of a resource record: a blank shift counts as "All"
CapacityKey(r) ==
    <<r.Department, r.Role, IF r.Shift \in {"", NoValue} THEN "All" ELSE r.Shift>>

CapacityKeys == {CapacityKey(resources_df.rows[i]) : i \in 1..Len(resources_df.rows)}

\* the resource records of a capacity key
KeyRecords(key) ==
    {i \in 1..Len(resources_df.rows) : CapacityKey(resources_df.rows[i]) = key}

\* C20 - Capacity aggregation: the capacity table has one row for each
\* distinct (department, role, shift) of the resource records and no other
\* row, and the availableFTE of a row is the sum of the FTE of the records
\* with its key, so that every record, whatever its role, is counted in
\* exactly one row.
C20_CapacityAggregation ==
    pc = "compared"
    => LET cap == capacity_table(pos_ctrl_df.rows)
           RowKey(i) == <<cap[i].Department, cap[i].Role, cap[i].Shift>>
       IN /\ Len(cap) = Cardinality(CapacityKeys)
          /\ \A key \in CapacityKeys :
                \E i \in 1..Len(cap) :
                   /\ RowKey(i) = key
                   /\ cap[i].Available = SumFTE(resources_df.rows, KeyRecords(key))
                   /\ \A j \in 1..Len(cap) : RowKey(j) = key => j = i

\* C21 - Comparison granularity: the compare phase outputs exactly one
\* ComparisonRecord per DemandRecord of the plan, with that record's date and
\* role (comparisons carry no hour, department or shift) and with needed
\* equal to that record's Staff_Needed.
C21_ComparisonGranularity ==
    pc = "compared"
    => /\ Len(comp_df) = Len(plan_df)
       /\ \A k \in 1..Len(plan_df) :
             \E i \in ComparisonsOf(plan_df[k]) :
                comp_df[i].Needed = plan_df[k].Staff_Needed

\* the rules are those of the manual-season planner (a grid)
GridMode == "Shift" \in rules_df.cols

\* the ratio cell a (census record, rule) pair is planned with
PairRatio(k) ==
    IF GridMode THEN rule_of(k)[SEASON_KEYS(title(season_arg))]
    ELSE ApplicableRatio(census_of(k), rule_of(k))

\* what identifies the DemandRecord of a pair, and a DemandRecord
PairSig(k) ==
    <<census_of(k).Date, census_of(k).Census, rule_of(k).Role,
      IF GridMode THEN rule_of(k).Department ELSE NoValue,
      IF GridMode THEN rule_of(k).Shift ELSE NoValue,
      PairRatio(k)>>
RecordSig(d) ==
    <<d.Date, d.Census, d.Role, d.Department, d.Shift, d.RatioUsed>>

\* the planner has what it needs: the identifying columns and the ratio
\* column of every census record (the cells of that column may be unusable)
PlannerInputsValid ==
    IF GridMode
    THEN /\ title(season_arg) \in SeasonCols
         /\ SEASON_KEYS(title(season_arg)) \in rules_df.cols
         /\ GridIdCols \subseteq rules_df.cols
    ELSE /\ "Role" \in rules_df.cols
         /\ \A i \in 1..Len(census_df) :
               ratio_col(rules_df, census_df[i].SeasonLabel) \in rules_df.cols

C23_NonNegativeDemand ==
    (pc = "planned" /\ \A i \in 1..Len(census_df) : load_census_keeps(census_df[i]))
    => \A k \in 1..Len(plan_df) : plan_df[k].Staff_Needed >= 0

\* C24 - SeasonFactor is informational only: the factor is given by the
\* label alone (High 1.1, Low 0.9, otherwise 1.0), and a census that differs
\* from the labeled one only in SeasonFactor yields the same DemandRecords.
C24_FactorInformational ==
    /\ pc \in {"labeled", "planned"}
       => \A i \in 1..Len(labeled_df) :
             labeled_df[i].SeasonFactor =
                IF labeled_df[i].SeasonLabel = "High" THEN 11
                ELSE IF labeled_df[i].SeasonLabel = "Low" THEN 9 ELSE 10
    /\ pc \in {"planned", "failed"}
       => /\ factor_run.plan = plan_df
          /\ factor_run.exc = error

C24_Witness ==
    /\ pc = "planned"
    /\ Len(plan_df) = 2
    /\ factor_run.plan = plan_df
    /\ \E i \in 1..Len(labeled_df) :
          /\ labeled_df[i].SeasonLabel = "Low"
          /\ labeled_df[i].SeasonFactor = 9
          /\ factor_run.census[i].SeasonFactor = 11
          /\ factor_run.census[i].SeasonLabel = "Low"
    /\ \E i \in 1..Len(labeled_df) : labeled_df[i].SeasonLabel = "High"

\* the run is over, or past the allocation, and it had built a plan
PastAllocation ==
    /\ pc \in {"scheduled", "summarised", "written", "failed"}
    /\ plan_df # <<>>

\* C25 - Reconciler and allocator are independent: for a given plan the
\* Staffing Schedule of a run is what the plan and the shift definitions
\* give, whatever the resource input (one the reconciler rejects included),
\* and the comparison is what the plan and the resources give, whatever the
\* shift definitions.
C25_StagesIndependent ==
    PastAllocation
    => /\ schedule_df
            = assign_staff_to_shifts(plan_df, shifts_df, shifts_cfg).rows
       /\ build_position_control(resources_df).exc = ""
          => comp_df
               = compare_plan_vs_resources(
                    plan_df, build_position_control(resources_df)).rows

\* the (Date, Role, SeasonLabel) of a ScheduleRecord
RecordKey(r) == <<r.Date, r.Role, r.SeasonLabel>>

\* C26 - One record per shift block: every group that is not skipped gets
\* exactly n ScheduleRecords, the i-th one for the i-th of the n blocks
\* resolved for its role (a block that is assigned nobody included), and
\* every ScheduleRecord carries the Date, Role and SeasonLabel of a group of
\* the plan that was not skipped.
C26_RecordPerBlock ==
    pc = "scheduled"
    => /\ \A key \in ScheduleKeys(plan_df) :
             LET blocks == ResolvedBlocks(key[2])
                 recs == GroupSchedule(key)
             IN (GroupTotal(key) # 0 /\ blocks # <<>>)
                => /\ Len(recs) = Len(blocks)
                   /\ \A i \in 1..Len(blocks) : recs[i].Shift = blocks[i].label
       /\ \A i \in 1..Len(schedule_df) :
             /\ RecordKey(schedule_df[i]) \in ScheduleKeys(plan_df)
             /\ GroupTotal(RecordKey(schedule_df[i])) # 0
             /\ ResolvedBlocks(schedule_df[i].Role) # <<>>

C26_Witness ==
    /\ pc = "scheduled"
    /\ use_yaml(shifts_df)
    /\ Len(schedule_df) = 5
    /\ \E key \in ScheduleKeys(plan_df) :
          /\ GroupTotal(key) = 1
          /\ Len(ResolvedBlocks(key[2])) = 3
          /\ Len(GroupSchedule(key)) = 3
          /\ GroupSchedule(key)[1].Assigned = 1
          /\ GroupSchedule(key)[2].Assigned = 0
          /\ GroupSchedule(key)[3].Assigned = 0

\* hour h lies in the span of block b: from s up to e, past midnight when
\* e <= s, the whole day when s = e
Covers(b, h) ==
    /\ h \in 0..23
    /\ \/ b.s.v = b.e.v
       \/ ((h - b.s.v) + 24) % 24 < ((b.e.v - b.s.v) + 24) % 24

\* the position, in the list of its day type, of the first block that covers
\* the hour of the i-th hourly record; 0 when no block does
FirstCover(i) ==
    LET r == hourly_need[i]
        blocks == IF (r.Date % 7) \in {5, 6} THEN shift_blocks.weekend
                  ELSE shift_blocks.weekday
        hits == {j \in 1..Len(blocks) :
                    r.Hour.kind = "num" /\ Covers(blocks[j], r.Hour.v)}
    IN IF hits = {} THEN 0 ELSE CHOOSE j \in hits : \A k \in hits : j <= k

\* the block FirstCover points at
FirstCoverBlock(i) ==
    LET r == hourly_need[i]
        blocks == IF (r.Date % 7) \in {5, 6} THEN shift_blocks.weekend
                  ELSE shift_blocks.weekday
    IN blocks[FirstCover(i)]

\* the hourly records counted in a row of the consolidation
CountedIn(o) ==
    {i \in 1..Len(hourly_need) :
        /\ FirstCover(i) # 0
        /\ hourly_need[i].Date = o.Date
        /\ FirstCoverBlock(i).label = o.ShiftLabel
        /\ FirstCoverBlock(i).s = o.ShiftStart
        /\ FirstCoverBlock(i).e = o.ShiftEnd}

TotalHourly(rows) == SumHourly(rows, 1..Len(rows))

\* every record is counted in the row of its first covering block and in no
\* other row; a record that no block covers is counted in none
FirstBlockWins ==
    /\ \A k \in 1..Len(need_by_shift) :
          /\ CountedIn(need_by_shift[k]) # {}
          /\ need_by_shift[k].Hourly_FTE_Needed
                = SumHourly(hourly_need, CountedIn(need_by_shift[k]))
    /\ \A i \in 1..Len(hourly_need) :
          Cardinality({k \in 1..Len(need_by_shift) :
                          i \in CountedIn(need_by_shift[k])})
             = IF FirstCover(i) = 0 THEN 0 ELSE 1

SpanSet == {span_hours[i] : i \in 1..Len(span_hours)}

\* C28 - Shift span with midnight wrap: for integer hours s, e in 0..23 the
\* span holds exactly the hours h of 0..23 with (h - s) mod 24 < (e - s) mod
\* 24 when s # e (so s..23 and 0..e-1 when e < s), all 24 hours when s = e,
\* and no hour twice; it is empty when start or end is not a number.
C28_SpanWithWrap ==
    pc = "span_done"
    => /\ (span_start.kind = "num" /\ span_end.kind = "num"
            /\ span_start.v \in 0..23 /\ span_end.v \in 0..23)
          => LET s == span_start.v
                 e == span_end.v
             IN /\ SpanSet \subseteq 0..23
                /\ Cardinality(SpanSet) = Len(span_hours)
                /\ s # e
                   => SpanSet = {h \in 0..23 :
                                    ((h - s) + 24) % 24 < ((e - s) + 24) % 24}
                /\ s > e => SpanSet = (s..23) \cup (0..(e - 1))
                /\ s = e => SpanSet = 0..23
       /\ (span_start.kind # "num" \/ span_end.kind # "num")
          => span_hours = <<>>

C28_Witness ==
    /\ pc = "span_done"
    /\ span_start = Num(19)
    /\ span_end = Num(7)
    /\ Len(span_hours) = 12
    /\ span_hours[1] = 19
    /\ span_hours[5] = 23
    /\ span_hours[6] = 0
    /\ span_hours[12] = 6

\* C29 - Schedule records carry their block faithfully: the Shift, Start, End
\* and Hours of the i-th ScheduleRecord of a group are the label, start hour,
\* end hour and duration of the i-th resolved block, for the explicit table
\* in either layout and for the configuration fallback, hours of 0 included.
C29_BlockCarried ==
    pc = "scheduled"
    => \A key \in ScheduleKeys(plan_df) :
          LET blocks == ResolvedBlocks(key[2])
              recs == GroupSchedule(key)
          IN (GroupTotal(key) # 0 /\ blocks # <<>>)
             => \A i \in 1..Len(blocks) :
                   /\ recs[i].Shift = blocks[i].label
                   /\ recs[i].Start = blocks[i].start
                   /\ recs[i].End = blocks[i].end
                   /\ recs[i].Hours = blocks[i].hours

\* the total Staff_Needed of the plan
PlanTotal == SumNeeded(plan_df, 1..Len(plan_df))

\* a group with positive demand for whose role no block is resolved
StarvedGroup ==
    \E key \in ScheduleKeys(plan_df) :
       GroupTotal(key) > 0 /\ ResolvedBlocks(key[2]) = <<>>

\* C30 - All-or-nothing allocation: on a plan with non-negative Staff_Needed
\* every (Date, Role, SeasonLabel) group either has Assigned values that sum
\* to its total Staff_Needed or has no ScheduleRecord at all; every Assigned
\* is >= 0; the total Assigned never exceeds the total Staff_Needed of the
\* plan, and equals it exactly when no group with positive demand lacks
\* shift blocks.
C30_AllOrNothing ==
    (pc = "scheduled" /\ \A k \in 1..Len(plan_df) : plan_df[k].Staff_Needed >= 0)
    => /\ \A key \in ScheduleKeys(plan_df) :
             \/ GroupSchedule(key) = <<>>
             \/ SumAssigned(GroupSchedule(key)) = GroupTotal(key)
       /\ \A i \in 1..Len(schedule_df) : schedule_df[i].Assigned >= 0
       /\ SumAssigned(schedule_df) <= PlanTotal
       /\ (SumAssigned(schedule_df) = PlanTotal) <=> ~StarvedGroup

C30_Witness ==
    /\ pc = "scheduled"
    /\ StarvedGroup
    /\ PlanTotal = 5
    /\ SumAssigned(schedule_df) = 2
    /\ Len(schedule_df) = 3

====
